---- MODULE Spec2Model ----
(***************************************************************************)
(* Content workflow of the preschool CMS backend: create / update /        *)
(* soft-delete of news and announcements, the Facebook publish log, and     *)
(* the Facebook page-token lifecycle, as implemented in                     *)
(*   app/services/admin/news_service.py                                     *)
(*   app/services/admin/announcement_service.py                             *)
(*   app/services/facebook_service.py                                       *)
(*   app/utils/text.py, app/models/tables.py                                *)
(*                                                                         *)
(* Spec serves one request at a time, each handler whole; SpecConc runs    *)
(* create / retitle / delete requests concurrently, split at their         *)
(* database statements, against the partial unique index on (type, slug).  *)
(*                                                                         *)
(* Text is a sequence of one-character strings.  Optional text fields have  *)
(* min_length=1 in the schemas, so the empty sequence stands for None.      *)
(* Ids and timestamps are positive integers, NULL is 0.                     *)
(***************************************************************************)
EXTENDS Integers, Sequences, FiniteSets, TLC

VARIABLES db, fb, now, FB_ENV, resp, reqs, rate_limiter, served

vars == <<db, fb, now, FB_ENV, resp, reqs, rate_limiter, served>>

NULL == 0

NoText == <<>>

\* ---------------------------------------------------------------- bounds
MaxPosts == 1

MaxRevisions == 2

MaxNow == 2

MaxRemote == 3

MaxItems == 2

MaxRequests == 2

\* times the account is linked again
MaxLinks == 2

\* characters of a text given to slugify
MaxLen == 4

\* ------------------------------------------------------- app/utils/text.py
RECURSIVE MapSeq(_, _)
MapSeq(Op(_), s) ==
    IF s = <<>> THEN <<>> ELSE <<Op(Head(s))>> \o MapSeq(Op, Tail(s))

RECURSIVE Concat(_)
Concat(ss) ==
    IF ss = <<>> THEN <<>> ELSE Head(ss) \o Concat(Tail(ss))

\* characters of the vietnamese_map table (accented characters are written
\* by name): each maps to a lowercase unaccented letter
vietnamese_map(c) ==
    CASE c = "a_acute" -> <<"a">>
      [] c = "A_ACUTE" -> <<"a">>
      [] c = "d_stroke" -> <<"d">>
      [] c = "D_STROKE" -> <<"d">>
      [] OTHER -> <<>>

\* unicodedata.normalize('NFD', c) with the combining marks (category Mn)
\* removed: keeps the case of the base letter
nfd_no_accent(c) ==
    CASE c = "u_uml" -> <<"u">>
      [] c = "U_UML" -> <<"U">>
      [] OTHER -> <<c>>

accent_char(c) ==
    IF vietnamese_map(c) # <<>> THEN vietnamese_map(c) ELSE nfd_no_accent(c)

_remove_vietnamese_accents(text) ==
    Concat(MapSeq(accent_char, text))

IsSpace(c) == c \in {" ", "\t", "\n"}

RECURSIVE LStrip(_, _)
LStrip(P(_), s) ==
    IF s # <<>> /\ P(Head(s)) THEN LStrip(P, Tail(s)) ELSE s

RECURSIVE RStrip(_, _)
RStrip(P(_), s) ==
    IF s # <<>> /\ P(s[Len(s)]) THEN RStrip(P, SubSeq(s, 1, Len(s) - 1)) ELSE s

Strip(P(_), s) == RStrip(P, LStrip(P, s))

lower(c) ==
    CASE c = "A" -> "a"
      [] c = "H" -> "h"
      [] c = "U" -> "u"
      [] c = "Y" -> "y"
      [] OTHER -> c

\* the character class of the first re.sub in slugify
IsSeparator(c) ==
    IsSpace(c) \/ c \in {"_", ".", ",", "!", "?", ":", ";", "(", ")", "[", "]",
                         "{", "}", "\"", "'", "/", "\\"}

SlugChars ==
    {"a", "b", "c", "d", "e", "f", "g", "h", "i", "j", "k", "l", "m", "n", "o",
     "p", "q", "r", "s", "t", "u", "v", "w", "x", "y", "z",
     "0", "1", "2", "3", "4", "5", "6", "7", "8", "9", "-"}

IsHyphen(c) == c = "-"

\* re.sub(r"[sep]+", "-", value): every maximal run of separators -> one "-"
RECURSIVE SubSeparators(_)
SubSeparators(s) ==
    IF s = <<>> THEN <<>>
    ELSE IF IsSeparator(Head(s))
         THEN <<"-">> \o SubSeparators(LStrip(IsSeparator, s))
         ELSE <<Head(s)>> \o SubSeparators(Tail(s))

\* re.sub(r"[^a-z0-9-]+", "", value)
KeepSlugChars(s) == SelectSeq(s, LAMBDA c : c \in SlugChars)

\* the runs of hyphens are left as they are
CollapseHyphensSkipped(s) == s

\* re.sub(r"-{2,}", "-", value)
RECURSIVE CollapseHyphens(_)
CollapseHyphens(s) ==
    IF s = <<>> THEN <<>>
    ELSE IF IsHyphen(Head(s))
         THEN <<"-">> \o CollapseHyphens(LStrip(IsHyphen, s))
         ELSE <<Head(s)>> \o CollapseHyphens(Tail(s))

slugify(value) ==
    IF value = <<>> THEN <<>>
    ELSE LET v1 == _remove_vietnamese_accents(value)
             v2 == MapSeq(lower, Strip(IsSpace, v1))
             v3 == SubSeparators(v2)
             v4 == KeepSlugChars(v3)
             v5 == CollapseHyphens(v4)
         IN  Strip(IsHyphen, v5)

\* -------------------------------------------------- app/models/enums.py
PostType == {"news", "announcement"}

ContentStatus == {"draft", "published", "archived"}

SUCCEEDED == "succeeded"

\* ------------------------------------------------- stored assets (table)
\* public ids of the rows of table assets; DeletedAsset is a soft-deleted
\* row, UnknownAsset is a public id with no row at all
ImageAsset == "img-a"

VideoAsset == "vid-b"

DeletedAsset == "img-c"

UnknownAsset == "img-d"

OtherAsset == "img-e"

\* a second video, and a file that is neither image nor video
SecondVideoAsset == "vid-f"

PdfAsset == "pdf-g"

\* more images than one remote post takes
ManyImages ==
    <<"img-01", "img-02", "img-03", "img-04", "img-05", "img-06", "img-07", "img-08",
      "img-09">>

Asset ==
    {[id |-> 11, public_id |-> ImageAsset, mime_type |-> "image", deleted_at |-> NULL],
     [id |-> 12, public_id |-> VideoAsset, mime_type |-> "video", deleted_at |-> NULL],
     [id |-> 13, public_id |-> DeletedAsset, mime_type |-> "image", deleted_at |-> 1],
     [id |-> 14, public_id |-> OtherAsset, mime_type |-> "image", deleted_at |-> NULL],
     [id |-> 15, public_id |-> SecondVideoAsset, mime_type |-> "video", deleted_at |-> NULL],
     [id |-> 16, public_id |-> PdfAsset, mime_type |-> "application", deleted_at |-> NULL]}
    \cup {[id |-> 20 + i, public_id |-> ManyImages[i], mime_type |-> "image",
           deleted_at |-> NULL] : i \in DOMAIN ManyImages}

Range(s) == {s[i] : i \in DOMAIN s}

\* an Optional[list]: None is [present |-> FALSE]
NoList == [present |-> FALSE, v |-> <<>>]

Some(l) == [present |-> TRUE, v |-> l]

\* ------------------------------------------------------- database rows
\* the row without its publish timestamp
NewPostUnstamped(post_type, status, title, slug, content_html, published_at) ==
    [post_type |-> post_type, status |-> status, title |-> title, slug |-> slug,
     content_html |-> content_html, published_at |-> NULL,
     excerpt |-> NoList, meta_title |-> NoList, deleted_at |-> NULL]

NewPost(post_type, status, title, slug, content_html, published_at) ==
    [post_type |-> post_type, status |-> status, title |-> title, slug |-> slug,
     content_html |-> content_html, published_at |-> published_at,
     excerpt |-> NoList, meta_title |-> NoList, deleted_at |-> NULL]

EmptyDb(user) ==
    [posts |-> <<>>, post_assets |-> {}, post_revisions |-> <<>>,
     facebook_post_log |-> {}, user |-> user]

\* a request-scoped Session: cur is what the session's transaction sees,
\* com is what is committed; fb is the remote platform; calls is the trace
\* of the Publisher calls the request made; out is what the platform will
\* answer to the calls of this request
NewSession(d, f, t, e, o) ==
    [cur |-> d, com |-> d, fb |-> f, now |-> t, env |-> e, out |-> o,
     calls |-> <<>>]

commit(ctx) == [ctx EXCEPT !.com = ctx.cur]

\* UniqueConstraint("post_id", "position") and ("post_id", "asset_id")
uq_post_assets_dropped(post_assets) == TRUE

uq_post_assets(post_assets) ==
    \A x, y \in post_assets :
        (x.post_id = y.post_id /\ x # y)
        => x.position # y.position /\ x.asset_id # y.asset_id

\* the pending rows can be written: a flush (and so a commit) of the session
\* raises IntegrityError otherwise
FlushOk(ctx) == uq_post_assets(ctx.cur.post_assets)

rollback(ctx) == [ctx EXCEPT !.cur = ctx.com]

\* ---------------------------------------- facebook_service.py: tokens
\* GET /me/accounts with the long-lived user token.  exchange says
\* whether the platform answers with a usable page; the page token it
\* returns is a fresh one and carries no expiry (expires_at: None)
get_page_token_from_user_token(user, exchange) ==
    [ok |-> exchange,
     page_id |-> IF user.facebook_page_id = NULL THEN 1 ELSE user.facebook_page_id,
     access_token |-> user.facebook_access_token + 1,
     name |-> 1,
     expires_at |-> NULL]

\* the refreshed row is not written
RefreshNotPersisted(ctx, user) == ctx

\* user.<fields> = page_info...; db.add(user); db.commit(); db.refresh(user)
\* the commit is the commit of the whole session
RefreshCommit(ctx, user) == commit([ctx EXCEPT !.cur.user = user])

\* a call that raises: nothing is returned, the session is as it was
TokenFailure(ctx, error) ==
    [ok |-> FALSE, ctx |-> ctx, page_id |-> NULL, access_token |-> NULL,
     exchanged |-> FALSE, error |-> error]

\* the ValueErrors that ask for a new link: no user token, user token
\* expired, exchange refused
TokenExpired == {"no_user_token", "user_token_expired", "exchange_failed"}

\* the refresh without the check of the user token's expiry
refresh_ignoring_user_token_expiry(ctx) ==
    LET user == ctx.cur.user
        page_info == get_page_token_from_user_token(user, ctx.out.exchange)
        user2 == [user EXCEPT
                    !.facebook_page_id = page_info.page_id,
                    !.facebook_access_token = page_info.access_token,
                    !.facebook_token_expires_at = page_info.expires_at,
                    !.facebook_page_name = page_info.name]
    IN  IF /\ user.facebook_access_token # NULL
           /\ \/ user.facebook_token_expires_at = NULL
              \/ user.facebook_token_expires_at > ctx.now
        THEN [ok |-> TRUE, ctx |-> ctx, page_id |-> user.facebook_page_id,
              access_token |-> user.facebook_access_token, exchanged |-> FALSE,
              error |-> ""]
        ELSE IF user.facebook_user_access_token = NULL
             THEN TokenFailure(ctx, "no_user_token")
        ELSE IF ~page_info.ok THEN TokenFailure(ctx, "exchange_failed")
        ELSE [ok |-> TRUE, ctx |-> RefreshCommit(ctx, user2),
              page_id |-> page_info.page_id, access_token |-> page_info.access_token,
              exchanged |-> TRUE, error |-> ""]

refresh_facebook_page_token(ctx) ==
    LET user == ctx.cur.user
    IN  IF /\ user.facebook_access_token # NULL
           /\ \/ user.facebook_token_expires_at = NULL
              \/ user.facebook_token_expires_at > ctx.now
        THEN [ok |-> TRUE, ctx |-> ctx, page_id |-> user.facebook_page_id,
              access_token |-> user.facebook_access_token, exchanged |-> FALSE,
              error |-> ""]
        ELSE IF user.facebook_user_access_token = NULL
             THEN TokenFailure(ctx, "no_user_token")
        ELSE IF /\ user.facebook_user_token_expires_at # NULL
                /\ user.facebook_user_token_expires_at <= ctx.now
             THEN TokenFailure(ctx, "user_token_expired")
        ELSE LET page_info == get_page_token_from_user_token(user, ctx.out.exchange)
                 user2 == [user EXCEPT
                             !.facebook_page_id = page_info.page_id,
                             !.facebook_access_token = page_info.access_token,
                             !.facebook_token_expires_at = page_info.expires_at,
                             !.facebook_page_name = page_info.name]
             IN  IF ~page_info.ok THEN TokenFailure(ctx, "exchange_failed")
                 ELSE IF ~FlushOk(ctx) THEN TokenFailure(ctx, "integrity_error")
                 ELSE [ok |-> TRUE, ctx |-> RefreshCommit(ctx, user2),
                       page_id |-> page_info.page_id,
                       access_token |-> page_info.access_token,
                       exchanged |-> TRUE, error |-> ""]

\* the token call without the check that a page is linked
get_valid_facebook_token_unchecked(ctx) == refresh_facebook_page_token(ctx)

get_valid_facebook_token(ctx) ==
    LET user == ctx.cur.user
    IN  IF user.facebook_page_id = NULL \/ user.facebook_access_token = NULL
        THEN TokenFailure(ctx, "not_linked")
        ELSE refresh_facebook_page_token(ctx)

\* ------------------------------------ facebook_service.py: remote calls
\* DELETE /{post-id}: what the platform answers.  200 with success for a
\* live post, 404 for one that is gone; delete = FALSE stands for every
\* other answer and for a request that does not get through
remote_delete(ctx, fb_post_id) ==
    IF ~ctx.out.delete THEN "failure"
    ELSE IF fb_post_id \in ctx.fb.live THEN "success"
    ELSE "not_found"

\* the call without its except clause: a failed request raises
delete_facebook_post_raising(ctx, fb_post_id, page_id, access_token) ==
    LET fb_page_id == IF page_id # NULL THEN page_id ELSE ctx.env.FB_PAGE_ID
        fb_token == IF access_token # NULL THEN access_token ELSE ctx.env.FB_ACCESS_TOKEN
        answer == remote_delete(ctx, fb_post_id)
    IN  IF fb_page_id = NULL \/ fb_token = NULL
        THEN [ctx |-> ctx, success |-> FALSE, raised |-> FALSE]
        ELSE IF answer = "success"
             THEN [ctx |-> [ctx EXCEPT !.fb.live = @ \ {fb_post_id}], success |-> TRUE,
                   raised |-> FALSE]
             ELSE [ctx |-> ctx, success |-> FALSE, raised |-> answer = "failure"]

\* true only when the platform deletes a live post; 404 (already gone),
\* any other platform error and any network failure give false; without a
\* page id or token no request is made at all.  Nothing is raised
delete_facebook_post(ctx, fb_post_id, page_id, access_token) ==
    LET fb_page_id == IF page_id # NULL THEN page_id ELSE ctx.env.FB_PAGE_ID
        fb_token == IF access_token # NULL THEN access_token ELSE ctx.env.FB_ACCESS_TOKEN
        answer == remote_delete(ctx, fb_post_id)
    IN  IF fb_page_id = NULL \/ fb_token = NULL
        THEN [ctx |-> ctx, success |-> FALSE, raised |-> FALSE]
        ELSE IF answer = "success"
             THEN [ctx |-> [ctx EXCEPT !.fb.live = @ \ {fb_post_id}], success |-> TRUE,
                   raised |-> FALSE]
             ELSE [ctx |-> ctx, success |-> FALSE, raised |-> FALSE]

\* ------------------------------------------- admin services: helpers
OkResult(ctx) == [ok |-> TRUE, ctx |-> ctx, status_code |-> 200, code |-> "", missing |-> {}]

ErrResult(ctx, status_code, code) ==
    [ok |-> FALSE, ctx |-> ctx, status_code |-> status_code, code |-> code, missing |-> {}]

\* _get_news_or_404 and the same select in the announcement service
PostExistsIgnoringDeleted(cur, post_type, id) ==
    /\ id \in DOMAIN cur.posts
    /\ cur.posts[id].post_type = post_type

PostExists(cur, post_type, id) ==
    /\ id \in DOMAIN cur.posts
    /\ cur.posts[id].post_type = post_type
    /\ cur.posts[id].deleted_at = NULL

NotFoundCode(post_type) ==
    IF post_type = "news" THEN "news_not_found" ELSE "announcement_not_found"

\* the select without its Asset.deleted_at.is_(None) filter
_resolve_asset_ids_with_deleted(asset_public_ids) ==
    LET assets == {a \in Asset : a.public_id \in Range(asset_public_ids)}
        found_public_ids == {a.public_id : a \in assets}
        missing == Range(asset_public_ids) \ found_public_ids
        asset_map(pid) == (CHOOSE a \in assets : a.public_id = pid).id
    IN  IF asset_public_ids = <<>> THEN [ok |-> TRUE, missing |-> {}, asset_ids |-> <<>>]
        ELSE IF missing # {} THEN [ok |-> FALSE, missing |-> missing, asset_ids |-> <<>>]
        ELSE [ok |-> TRUE, missing |-> {},
              asset_ids |-> [i \in DOMAIN asset_public_ids |-> asset_map(asset_public_ids[i])]]

_resolve_asset_ids(asset_public_ids) ==
    LET assets == {a \in Asset : a.public_id \in Range(asset_public_ids)
                                  /\ a.deleted_at = NULL}
        found_public_ids == {a.public_id : a \in assets}
        missing == Range(asset_public_ids) \ found_public_ids
        asset_map(pid) == (CHOOSE a \in assets : a.public_id = pid).id
    IN  IF asset_public_ids = <<>> THEN [ok |-> TRUE, missing |-> {}, asset_ids |-> <<>>]
        ELSE IF missing # {} THEN [ok |-> FALSE, missing |-> missing, asset_ids |-> <<>>]
        ELSE [ok |-> TRUE, missing |-> {},
              asset_ids |-> [i \in DOMAIN asset_public_ids |-> asset_map(asset_public_ids[i])]]

\* rows of posts that hold the slug: same type, not deleted, not the row
\* being updated (exclude_post_id = NULL on create)
SlugTaken(cur, post_type, slug, exclude_post_id) ==
    \E i \in DOMAIN cur.posts :
        /\ cur.posts[i].post_type = post_type
        /\ cur.posts[i].slug = slug
        /\ cur.posts[i].deleted_at = NULL
        /\ i # exclude_post_id

news_ensure_unique_slug(ctx, slug, exclude_post_id) ==
    IF SlugTaken(ctx.cur, "news", slug, exclude_post_id)
    THEN ErrResult(ctx, 409, "slug_conflict")
    ELSE OkResult(ctx)

announcement_ensure_unique_slug(ctx, slug, exclude_post_id) ==
    IF SlugTaken(ctx.cur, "announcement", slug, exclude_post_id)
    THEN ErrResult(ctx, 400, "slug_not_unique")
    ELSE OkResult(ctx)

_ensure_unique_slug(post_type, ctx, slug, exclude_post_id) ==
    IF post_type = "news"
    THEN news_ensure_unique_slug(ctx, slug, exclude_post_id)
    ELSE announcement_ensure_unique_slug(ctx, slug, exclude_post_id)

\* the rows of post_assets of a post, as a sequence ordered by position
RECURSIVE SortByPosition(_)
SortByPosition(rows) ==
    IF rows = {} THEN <<>>
    ELSE LET r == CHOOSE x \in rows : \A y \in rows : x.position <= y.position
         IN  <<r>> \o SortByPosition(rows \ {r})

PostAssetsOf(cur, post_id) ==
    SortByPosition({pa \in cur.post_assets : pa.post_id = post_id})

\* the public ids of the non-deleted assets attached to the post (the
\* second select has no ORDER BY; the result is only used as an IN-list)
_get_post_content_asset_public_ids(cur, post_id) ==
    LET asset_ids == {pa.asset_id : pa \in {x \in cur.post_assets : x.post_id = post_id}}
    IN  {a.public_id : a \in {x \in Asset : x.id \in asset_ids /\ x.deleted_at = NULL}}

_get_facebook_post_id(cur, post_id) ==
    LET rows == {l \in cur.facebook_post_log : l.post_id = post_id /\ l.fb_post_id # NULL}
    IN  IF rows = {} THEN NULL ELSE (CHOOSE l \in rows : TRUE).fb_post_id

\* a row is added at every publish, whether the post has one or not
_save_facebook_post_log_always_insert(ctx, post_id, fb_post_id, status) ==
    [ctx EXCEPT !.cur.facebook_post_log =
        @ \cup {[post_id |-> post_id, fb_post_id |-> fb_post_id, status |-> status]}]

\* the log row, once written, is never updated
_save_facebook_post_log_insert_only(ctx, post_id, fb_post_id, status) ==
    LET rows == {l \in ctx.cur.facebook_post_log : l.post_id = post_id}
        row == [post_id |-> post_id, fb_post_id |-> fb_post_id, status |-> status]
    IN  IF rows # {} THEN ctx
        ELSE [ctx EXCEPT !.cur.facebook_post_log = @ \cup {row}]

_save_facebook_post_log(ctx, post_id, fb_post_id, status) ==
    LET rows == {l \in ctx.cur.facebook_post_log : l.post_id = post_id}
        row == [post_id |-> post_id, fb_post_id |-> fb_post_id, status |-> status]
    IN  [ctx EXCEPT !.cur.facebook_post_log = (@ \ rows) \cup {row}]

\* --------------------------------------------------- _delete_from_facebook
UnpublishCall(ctx, post_id, fb_post_id, success) ==
    [fn |-> "unpublish", id |-> fb_post_id, ok |-> success, route |-> "none",
     uploads |-> <<>>, failed |-> <<>>,
     row_deleted |-> ctx.cur.posts[post_id].deleted_at # NULL]

\* the remote delete is skipped when the user has no valid token
_delete_from_facebook_needs_token(ctx, post_id, has_user) ==
    LET fb_post_id == _get_facebook_post_id(ctx.cur, post_id)
        tok == IF has_user THEN get_valid_facebook_token(ctx)
               ELSE [ok |-> FALSE, ctx |-> ctx, page_id |-> NULL, access_token |-> NULL,
                     exchanged |-> FALSE]
        del == delete_facebook_post(tok.ctx, fb_post_id, tok.page_id, tok.access_token)
        logged == IF del.success
                  THEN [del.ctx EXCEPT !.cur.facebook_post_log =
                          {[l EXCEPT !.status = IF l.post_id = post_id THEN SUCCEEDED ELSE @]
                             : l \in @}]
                  ELSE del.ctx
    IN  IF fb_post_id = NULL THEN [ctx |-> ctx, success |-> TRUE]
        ELSE IF ~tok.ok THEN [ctx |-> tok.ctx, success |-> FALSE]
        ELSE [ctx |-> [logged EXCEPT !.calls =
                          Append(@, UnpublishCall(ctx, post_id, fb_post_id, del.success))],
              success |-> del.success]

_delete_from_facebook(ctx, post_id, has_user) ==
    LET fb_post_id == _get_facebook_post_id(ctx.cur, post_id)
        tok == IF has_user THEN get_valid_facebook_token(ctx)
               ELSE [ok |-> FALSE, ctx |-> ctx, page_id |-> NULL, access_token |-> NULL,
                     exchanged |-> FALSE]
        \* except ValueError: keep page_id = access_token = None (env token)
        del == delete_facebook_post(tok.ctx, fb_post_id,
                                    IF tok.ok THEN tok.page_id ELSE NULL,
                                    IF tok.ok THEN tok.access_token ELSE NULL)
        logged == IF del.success
                  THEN [del.ctx EXCEPT !.cur.facebook_post_log =
                          {[l EXCEPT !.status = IF l.post_id = post_id THEN SUCCEEDED ELSE @]
                             : l \in @}]
                  ELSE del.ctx
    IN  IF fb_post_id = NULL THEN [ctx |-> ctx, success |-> TRUE]
        ELSE [ctx |-> [logged EXCEPT !.calls =
                          Append(@, UnpublishCall(ctx, post_id, fb_post_id, del.success))],
              success |-> del.success]

\* ---------------------------------------------------- _publish_to_facebook
PublishCalls(ctx) == SelectSeq(ctx.calls, LAMBDA c : c.fn = "publish")

\* rows ordered by id, ascending or descending
RECURSIVE SortById(_, _)
SortById(rows, direction) ==
    IF rows = {} THEN <<>>
    ELSE LET r == CHOOSE x \in rows :
                     \A y \in rows : IF direction = "asc" THEN x.id <= y.id ELSE x.id >= y.id
         IN  <<r>> \o SortById(rows \ {r}, direction)

\* select(Asset).where(Asset.public_id.in_(content_asset_public_ids)): the
\* statement has no ORDER BY, the rows come in the order the database
\* reads them (ctx.out.rows: by ascending or by descending id)
all_assets(ctx, content_asset_public_ids) ==
    SortById({a \in Asset : a.public_id \in content_asset_public_ids}, ctx.out.rows)

PublicIds(assets) == [i \in DOMAIN assets |-> assets[i].public_id]

\* the request that creates the remote post (POST /videos, POST /feed): the
\* post is created and its id returned, or the call raises.  uploads are
\* the assets an upload request was made for, failed those whose request
\* failed.  fb.made keeps which item each remote post was created for (its
\* message carries the link of the item)
CreateRemotePost(ctx, post_id, route, uploads, failed_photos) ==
    LET accepted == \/ ctx.out.publish = "ok"
                    \/ ctx.out.publish = "ok_then_fail" /\ PublishCalls(ctx) = <<>>
        fb_post_id == ctx.fb.next
        call(ok) == [fn |-> "publish", id |-> IF ok THEN fb_post_id ELSE NULL, ok |-> ok,
                     route |-> route, uploads |-> uploads,
                     failed |-> IF route = "video" /\ ~ok THEN uploads ELSE failed_photos,
                     row_deleted |-> ctx.cur.posts[post_id].deleted_at # NULL]
    IN  IF accepted
        THEN [ok |-> TRUE, fb_post_id |-> fb_post_id,
              ctx |-> [ctx EXCEPT !.fb.live = @ \cup {fb_post_id}, !.fb.next = @ + 1,
                                  !.fb.made = @ \cup {<<fb_post_id, post_id>>},
                                  !.calls = Append(@, call(TRUE))]]
        ELSE [ok |-> FALSE, fb_post_id |-> NULL,
              ctx |-> [ctx EXCEPT !.calls = Append(@, call(FALSE))]]

\* one POST /{page}/videos with the file; any failure is raised as ValueError
upload_video_to_facebook(ctx, post_id, video_asset) ==
    CreateRemotePost(ctx, post_id, "video", <<video_asset.public_id>>, <<>>)

\* for asset in all_images[:10]
FB_MAX_IMAGES == 10

\* one POST /{page}/photos (published: false) for each of the first ten
\* images, a failed one is logged and skipped (except Exception: continue);
\* then one POST /{page}/feed with the photo ids that came back
upload_images_to_facebook(ctx, post_id, content_assets) ==
    LET all_images == PublicIds(content_assets)
        tried == SubSeq(all_images, 1,
                        IF Len(all_images) < FB_MAX_IMAGES THEN Len(all_images)
                        ELSE FB_MAX_IMAGES)
        failed == SelectSeq(tried, LAMBDA pid : pid \in ctx.out.photo_fail)
        route == IF content_assets = <<>> THEN "text" ELSE "images"
    IN  CreateRemotePost(ctx, post_id, route, tried, failed)

\* fb_images, fb_video and the branch on them
upload_to_facebook(ctx, post_id, content_asset_public_ids) ==
    LET assets == all_assets(ctx, content_asset_public_ids)
        fb_images == SelectSeq(assets, LAMBDA a : a.mime_type = "image")
        videos == SelectSeq(assets, LAMBDA a : a.mime_type = "video")
    IN  IF videos # <<>> THEN upload_video_to_facebook(ctx, post_id, Head(videos))
        ELSE IF fb_images # <<>> THEN upload_images_to_facebook(ctx, post_id, fb_images)
        ELSE upload_images_to_facebook(ctx, post_id, <<>>)

\* except Exception: the failure is logged and the caller goes on
PublishFailedSwallowed(ctx) == OkResult(ctx)

\* except Exception: db.rollback(); raise HTTPException(500, facebook_post_failed)
PublishFailed(ctx) == ErrResult(rollback(ctx), 500, "facebook_post_failed")

_publish_to_facebook(ctx, post_id, content_asset_public_ids, has_user) ==
    IF ~has_user THEN OkResult(ctx)
    ELSE LET tok == get_valid_facebook_token(ctx)
             up == upload_to_facebook(tok.ctx, post_id, content_asset_public_ids)
         IN  \* the HTTPException(400, facebook_token_expired) raised for a
             \* ValueError is itself caught by the outer except Exception
             IF ~tok.ok THEN PublishFailed(tok.ctx)
             ELSE IF ~up.ok THEN PublishFailed(up.ctx)
             \* _save_facebook_post_log flushes the session
             ELSE IF ~FlushOk(up.ctx) THEN PublishFailed(up.ctx)
             ELSE OkResult(_save_facebook_post_log(up.ctx, post_id, up.fb_post_id, SUCCEEDED))

\* ------------------------------------------------- the request boundary
\* what a request leaves behind: the committed database, the platform, the
\* response.  An exception raised before a commit leaves com as it was.
Response(ctx, status_code, code, missing, id) ==
    [db |-> ctx.com, fb |-> ctx.fb, calls |-> ctx.calls,
     status_code |-> status_code, code |-> code, missing |-> missing, id |-> id]

Raise(r, id) == Response(r.ctx, r.status_code, r.code, r.missing, id)

\* --------------------------------------- create_news / create_announcement
AddPostAssets(ctx, post_id, asset_ids) ==
    [ctx EXCEPT !.cur.post_assets =
        @ \cup {[post_id |-> post_id, asset_id |-> asset_ids[i], position |-> i - 1]
                  : i \in DOMAIN asset_ids}]

AddRevision(ctx, post_id) ==
    [ctx EXCEPT !.cur.post_revisions =
        Append(@, [post_id |-> post_id, title |-> ctx.cur.posts[post_id].title,
                   excerpt |-> ctx.cur.posts[post_id].excerpt,
                   content_html |-> ctx.cur.posts[post_id].content_html])]

create_post(post_type, ctx, payload, has_user) ==
    LET slug == IF payload.slug # NoText THEN payload.slug ELSE slugify(payload.title)
        uniq == _ensure_unique_slug(post_type, ctx, slug, NULL)
        published_at == IF payload.status = "published" THEN ctx.now ELSE NULL
        id == Len(ctx.cur.posts) + 1
        post == [NewPost(post_type, payload.status, payload.title, slug,
                         payload.content_html, published_at)
                    EXCEPT !.excerpt = payload.excerpt, !.meta_title = payload.meta_title]
        c1 == [ctx EXCEPT !.cur.posts = Append(@, post)]
        res == _resolve_asset_ids(payload.content_asset_public_ids.v)
        c2 == AddPostAssets(c1, id, res.asset_ids)
        c3 == AddRevision(c2, id)
        pub == IF payload.status = "published" /\ payload.publish_to_facebook
               THEN _publish_to_facebook(c3, id, Range(payload.content_asset_public_ids.v),
                                         has_user)
               ELSE OkResult(c3)
    IN  IF slug = NoText THEN Raise(ErrResult(ctx, 400, "invalid_slug"), NULL)
        ELSE IF ~uniq.ok THEN Raise(uniq, NULL)
        ELSE IF ~res.ok
             THEN Raise([ErrResult(c1, 400, "invalid_asset") EXCEPT !.missing = res.missing],
                        NULL)
        ELSE IF ~pub.ok THEN Raise(pub, id)
        ELSE IF ~FlushOk(pub.ctx) THEN Raise(ErrResult(pub.ctx, 500, "integrity_error"), id)
        ELSE Response(commit(pub.ctx), 201, "", {}, id)

create_news(ctx, payload, has_user) == create_post("news", ctx, payload, has_user)

create_announcement(ctx, payload, has_user) ==
    create_post("announcement", ctx, payload, has_user)

\* --------------------------------------- update_news / update_announcement
\* title (with the slug derived from it) and content_html
\* the fields applied on truthiness (`if payload.excerpt:`): an empty
\* value is taken for an absent one
ApplyFieldsIfTruthy(post_type, ctx, id, payload) ==
    LET new_slug == slugify(payload.title)
        c1 == IF payload.title # NoText
              THEN [ctx EXCEPT !.cur.posts[id].title = payload.title] ELSE ctx
        uniq == _ensure_unique_slug(post_type, c1, new_slug, id)
        c2 == IF payload.title # NoText
              THEN [c1 EXCEPT !.cur.posts[id].slug = new_slug] ELSE c1
        e1 == IF payload.excerpt.present /\ payload.excerpt.v # <<>>
              THEN [c2 EXCEPT !.cur.posts[id].excerpt = payload.excerpt] ELSE c2
        c3 == IF payload.content_html # NoText
              THEN [e1 EXCEPT !.cur.posts[id].content_html = payload.content_html] ELSE e1
        c4 == IF payload.meta_title.present /\ payload.meta_title.v # <<>>
              THEN [c3 EXCEPT !.cur.posts[id].meta_title = payload.meta_title] ELSE c3
    IN  IF payload.title # NoText /\ new_slug = NoText
        THEN ErrResult(c1, 400, "invalid_slug")
        ELSE IF payload.title # NoText /\ ~uniq.ok THEN uniq
        ELSE OkResult(c4)

ApplyFields(post_type, ctx, id, payload) ==
    LET new_slug == slugify(payload.title)
        c1 == IF payload.title # NoText
              THEN [ctx EXCEPT !.cur.posts[id].title = payload.title] ELSE ctx
        uniq == _ensure_unique_slug(post_type, c1, new_slug, id)
        c2 == IF payload.title # NoText
              THEN [c1 EXCEPT !.cur.posts[id].slug = new_slug] ELSE c1
        e1 == IF payload.excerpt.present
              THEN [c2 EXCEPT !.cur.posts[id].excerpt = payload.excerpt] ELSE c2
        c3 == IF payload.content_html # NoText
              THEN [e1 EXCEPT !.cur.posts[id].content_html = payload.content_html] ELSE e1
        c4 == IF payload.meta_title.present
              THEN [c3 EXCEPT !.cur.posts[id].meta_title = payload.meta_title] ELSE c3
    IN  IF payload.title # NoText /\ new_slug = NoText
        THEN ErrResult(c1, 400, "invalid_slug")
        ELSE IF payload.title # NoText /\ ~uniq.ok THEN uniq
        ELSE OkResult(c4)

\* delete(PostAsset) of the post, then the new rows in the given order
ApplyAssets(ctx, id, payload) ==
    LET c1 == [ctx EXCEPT !.cur.post_assets = {pa \in @ : pa.post_id # id}]
        res == _resolve_asset_ids(payload.content_asset_public_ids.v)
    IN  IF ~payload.content_asset_public_ids.present THEN OkResult(ctx)
        ELSE IF ~res.ok
             THEN [ErrResult(c1, 400, "invalid_asset") EXCEPT !.missing = res.missing]
        \* db.flush() after the new rows
        ELSE IF ~FlushOk(AddPostAssets(c1, id, res.asset_ids))
             THEN ErrResult(c1, 500, "integrity_error")
        ELSE OkResult(AddPostAssets(c1, id, res.asset_ids))

Publish(ctx, id, has_user) ==
    _publish_to_facebook(ctx, id, _get_post_content_asset_public_ids(ctx.cur, id), has_user)

\* if payload.status is not None: ...
ApplyStatus(ctx, id, payload, previous_status, has_user) ==
    LET publish_to_facebook == payload.publish_to_facebook
        c1 == [ctx EXCEPT !.cur.posts[id].status = payload.status]
    IN  IF payload.status = "None" THEN OkResult(ctx)
        ELSE IF previous_status # "published" /\ payload.status = "published"
             THEN LET c2 == [c1 EXCEPT !.cur.posts[id].published_at = ctx.now]
                  IN  IF publish_to_facebook \in {"None", "True"}
                      THEN Publish(c2, id, has_user)
                      ELSE OkResult(c2)
        ELSE IF previous_status = "published" /\ payload.status # "published"
             THEN LET c2 == [c1 EXCEPT !.cur.posts[id].published_at = NULL]
                  IN  OkResult(_delete_from_facebook(c2, id, has_user).ctx)
        ELSE IF /\ previous_status = "published"
                /\ payload.status = "published"
                /\ publish_to_facebook # "None"
             THEN IF publish_to_facebook = "False"
                  THEN OkResult(_delete_from_facebook(c1, id, has_user).ctx)
                  ELSE IF _get_facebook_post_id(c1.cur, id) = NULL
                       THEN Publish(c1, id, has_user)
                       ELSE OkResult(c1)
        ELSE OkResult(c1)

has_content_changes(payload) ==
    \/ payload.title # NoText
    \/ payload.content_html # NoText
    \/ payload.excerpt.present
    \/ payload.slug # NoText
    \/ payload.content_asset_public_ids.present
    \/ payload.meta_title.present

\* already published and still published with content changes: delete the
\* remote post and, unless publish_to_facebook is False, publish again
Republish(ctx, id, payload, previous_status, has_user) ==
    IF /\ ctx.cur.posts[id].status = "published"
       /\ previous_status = "published"
       /\ has_content_changes(payload)
    THEN IF payload.publish_to_facebook = "False"
         THEN OkResult(_delete_from_facebook(ctx, id, has_user).ctx)
         ELSE Publish(_delete_from_facebook(ctx, id, has_user).ctx, id, has_user)
    ELSE OkResult(ctx)

update_post(post_type, ctx, id, payload, has_user) ==
    LET previous_status == ctx.cur.posts[id].status
        f == ApplyFields(post_type, ctx, id, payload)
        a == ApplyAssets(f.ctx, id, payload)
        s == ApplyStatus(a.ctx, id, payload, previous_status, has_user)
        r == Republish(s.ctx, id, payload, previous_status, has_user)
    IN  IF ~PostExists(ctx.cur, post_type, id)
        THEN Raise(ErrResult(ctx, 404, NotFoundCode(post_type)), id)
        ELSE IF ~f.ok THEN Raise(f, id)
        ELSE IF ~a.ok THEN Raise(a, id)
        ELSE IF ~s.ok THEN Raise(s, id)
        ELSE IF ~r.ok THEN Raise(r, id)
        ELSE Response(commit(AddRevision(r.ctx, id)), 200, "", {}, id)

update_news(ctx, id, payload, has_user) == update_post("news", ctx, id, payload, has_user)

update_announcement(ctx, id, payload, has_user) ==
    update_post("announcement", ctx, id, payload, has_user)

\* --------------------------------------- delete_news / delete_announcement
delete_post(post_type, ctx, id, has_user) ==
    LET c1 == IF ctx.cur.posts[id].status = "published"
              THEN _delete_from_facebook(ctx, id, has_user).ctx
              ELSE ctx
        c2 == [c1 EXCEPT !.cur.posts[id].deleted_at = ctx.now]
    IN  IF ~PostExists(ctx.cur, post_type, id)
        THEN Raise(ErrResult(ctx, 404, NotFoundCode(post_type)), id)
        ELSE Response(commit(c2), 204, "", {}, id)

delete_news(ctx, id, has_user) == delete_post("news", ctx, id, has_user)

delete_announcement(ctx, id, has_user) == delete_post("announcement", ctx, id, has_user)

\* ------------------------------- get_news_detail / get_announcement_detail
get_detail(post_type, ctx, id) ==
    IF ~PostExists(ctx.cur, post_type, id)
    THEN Raise(ErrResult(ctx, 404, NotFoundCode(post_type)), id)
    ELSE Response(ctx, 200, "", {}, id)

\* _to_news_out / _to_admin_announcement_out: content_assets of the
\* response, the rows ordered by position, rows of deleted assets left out
_to_news_out(cur, post_id) ==
    LET post_assets == PostAssetsOf(cur, post_id)
        assets(asset_id) == {a \in Asset : a.id = asset_id /\ a.deleted_at = NULL}
        shown == SelectSeq(post_assets, LAMBDA pa : assets(pa.asset_id) # {})
    IN  [i \in DOMAIN shown |->
            [position |-> shown[i].position,
             public_id |-> (CHOOSE a \in assets(shown[i].asset_id) : TRUE).public_id]]

\* ----------------------------------------------------------- the inputs
T_Hi == <<"H", "i">>

T_hi == <<"h", "i", "!">>

T_Yo == <<"Y", "o">>

T_Bad == <<"@">>

B1 == <<"x">>

B2 == <<"y">>

\* users rows (columns of migration 0011)
Cred(page_id, token, token_exp, user_token, user_exp) ==
    [facebook_page_id |-> page_id, facebook_access_token |-> token,
     facebook_token_expires_at |-> token_exp,
     facebook_page_name |-> IF page_id = NULL THEN NULL ELSE 1,
     facebook_user_access_token |-> user_token,
     facebook_user_token_expires_at |-> user_exp]

NotLinked == Cred(NULL, NULL, NULL, NULL, NULL)

\* page token without expiry
LinkedForever == Cred(1, 1, NULL, 1, MaxNow + 1)

\* page token that expires at time 2, user token still valid then
LinkedExpiring == Cred(1, 1, 2, 1, MaxNow + 1)

\* page token and user token both expired
LinkedExpired == Cred(1, 1, 1, 1, 1)

\* FB_PAGE_ID / FB_ACCESS_TOKEN of the environment: unset, or set
EnvUnset == [FB_PAGE_ID |-> NULL, FB_ACCESS_TOKEN |-> NULL]

EnvSet == [FB_PAGE_ID |-> 9, FB_ACCESS_TOKEN |-> 9]

\* the acting user's row and the environment the process was started with
Installations ==
    {<<NotLinked, EnvUnset>>, <<LinkedForever, EnvSet>>, <<LinkedExpiring, EnvSet>>,
     <<LinkedExpired, EnvSet>>}

\* answers of the platform during one request
Outcomes ==
    [exchange : BOOLEAN, publish : {"ok", "fail", "ok_then_fail"}, delete : BOOLEAN,
     rows : {"asc"}, photo_fail : {{}}]

AssetListsCreate == {NoList, Some(<<ImageAsset>>), Some(<<ImageAsset, UnknownAsset>>)}

AssetListsUpdate == {NoList, Some(<<DeletedAsset, ImageAsset, UnknownAsset>>)}

CreatePayloads ==
    [title : {T_Hi, T_Bad}, slug : {NoText}, content_html : {B1},
     excerpt : {NoList}, meta_title : {NoList},
     status : ContentStatus, publish_to_facebook : BOOLEAN,
     content_asset_public_ids : AssetListsCreate]

ContentEdits ==
    {[title |-> NoText, content_html |-> NoText],
     [title |-> T_Yo, content_html |-> NoText],
     [title |-> NoText, content_html |-> B2]}

UpdatePayloads ==
    {[title |-> e.title, slug |-> NoText, content_html |-> e.content_html,
      excerpt |-> NoList, meta_title |-> NoList, status |-> st, publish_to_facebook |-> f, content_asset_public_ids |-> l]
       : e \in ContentEdits, st \in ContentStatus \cup {"None"},
         f \in {"None", "True", "False"}, l \in AssetListsUpdate}

\* ------------------------------------------------- the sequential system
NoPayload ==
    [title |-> NoText, slug |-> NoText, content_html |-> NoText,
     excerpt |-> NoList, meta_title |-> NoList, status |-> "None",
     publish_to_facebook |-> "None", content_asset_public_ids |-> NoList]

Idle ==
    [op |-> "idle", post_type |-> "none", id |-> NULL, payload |-> NoPayload,
     status_code |-> 0, code |-> "", missing |-> {}, calls |-> <<>>,
     before |-> EmptyDb(Cred(NULL, NULL, NULL, NULL, NULL)),
     fb_before |-> [live |-> {}, next |-> 1, made |-> {}]]

\* the request has run: its effects are in db and fb, its response in resp
Served(op, post_type, payload, r) ==
    /\ db' = r.db
    /\ fb' = r.fb
    /\ resp' = [op |-> op, post_type |-> post_type, id |-> r.id, payload |-> payload,
                status_code |-> r.status_code, code |-> r.code, missing |-> r.missing,
                calls |-> r.calls, before |-> db, fb_before |-> fb]
    /\ UNCHANGED <<now, FB_ENV, reqs, rate_limiter, served>>

CreatePayloadOf(payload) ==
    [payload EXCEPT !.publish_to_facebook = IF @ THEN "True" ELSE "False"]

\* requests address rows of their own route, deleted or not
PostIds(post_type) == {i \in DOMAIN db.posts : db.posts[i].post_type = post_type}

\* a delete makes no exchange (no user) and no publish; a get makes no call
DeleteOutcomes == {o \in Outcomes : o.exchange /\ o.publish = "ok"}

GetOutcomes == {o \in DeleteOutcomes : o.delete}

\* POST /admin/news, /admin/announcements under the given platform answers
CreateUnder(post_type, payloads, outcomes) ==
    /\ resp.op = "idle"
    /\ Len(db.posts) < MaxPosts
    /\ fb.next <= MaxRemote
    /\ \E payload \in payloads, out \in outcomes :
          Served("create", post_type, CreatePayloadOf(payload),
                 create_post(post_type, NewSession(db, fb, now, FB_ENV, out),
                             payload, TRUE))

Create(post_type, payloads) == CreateUnder(post_type, payloads, Outcomes)

\* PUT /admin/news/{id}, /admin/announcements/{id}
UpdateUnder(post_type, payloads, outcomes) ==
    /\ resp.op = "idle"
    /\ Len(db.post_revisions) < MaxRevisions
    /\ fb.next < MaxRemote
    /\ \E id \in PostIds(post_type), payload \in payloads, out \in outcomes :
          Served("update", post_type, payload,
                 update_post(post_type, NewSession(db, fb, now, FB_ENV, out),
                             id, payload, TRUE))

Update(post_type, payloads) == UpdateUnder(post_type, payloads, Outcomes)

\* the delete routes pass no user
Delete(post_type) ==
    /\ resp.op = "idle"
    /\ \E id \in PostIds(post_type), out \in DeleteOutcomes :
          Served("delete", post_type, NoPayload,
                 delete_post(post_type, NewSession(db, fb, now, FB_ENV, out), id, FALSE))

Get(post_type) ==
    /\ resp.op = "idle"
    /\ \E id \in PostIds(post_type), out \in GetOutcomes :
          Served("get", post_type, NoPayload,
                 get_detail(post_type, NewSession(db, fb, now, FB_ENV, out), id))

CreateNews == Create("news", CreatePayloads)

CreateAnnouncement == Create("announcement", CreatePayloads)

UpdateNews == Update("news", UpdatePayloads)

UpdateAnnouncement == Update("announcement", UpdatePayloads)

DeleteNews == Delete("news")

DeleteAnnouncement == Delete("announcement")

GetNews == Get("news")

GetAnnouncement == Get("announcement")

\* ------------------------------------------------------ core/ratelimit.py
MaxLimit == 2
MaxWindow == 1

\* the three rules, the limits and windows scaled down in proportion
\* (10 per 300 s, 10 per 300 s, 5 per 600 s in the source)
RATE_LIMIT_RULES ==
    <<[path |-> <<"auth", "google", "login">>, limit |-> MaxLimit,
       window_seconds |-> MaxWindow],
      [path |-> <<"auth", "local", "signin">>, limit |-> MaxLimit,
       window_seconds |-> MaxWindow],
      [path |-> <<"contact">>, limit |-> MaxLimit - 1, window_seconds |-> MaxWindow + 1]>>

RateLimiter(rules) == [rules |-> rules, _buckets |-> <<>>]

startswith(path, prefix) ==
    Len(path) >= Len(prefix) /\ SubSeq(path, 1, Len(prefix)) = prefix

NoRule == [path |-> <<>>, limit |-> 0, window_seconds |-> 0]

\* the first rule whose path is a prefix of the request path, or None
_match_rule(rules, path) ==
    LET hits == {i \in DOMAIN rules : startswith(path, rules[i].path)}
    IN  IF hits = {} THEN NoRule
        ELSE rules[CHOOSE i \in hits : \A j \in hits : i <= j]

\* the first entry of x-forwarded-for, else the peer address, else "unknown"
_client_ip(request) ==
    IF request.xff # <<>> THEN Head(request.xff)
    ELSE IF request.client # "None" THEN request.client
    ELSE "unknown"

\* the entry at the start of the window is dropped as well
DropExpiredInclusive(history, window_start) ==
    SelectSeq(history, LAMBDA t : t > window_start)

\* while history and history[0] < window_start: history.pop(0)
RECURSIVE DropExpired(_, _)
DropExpired(history, window_start) ==
    IF history # <<>> /\ Head(history) < window_start
    THEN DropExpired(Tail(history), window_start)
    ELSE history

\* RateLimiter.check at time t: None (status_code 0) or the 429 response
check(self, request, t) ==
    LET rule == _match_rule(self.rules, request.path)
        key == <<rule.path, _client_ip(request)>>
        window_start == t - rule.window_seconds
        history == DropExpired(IF key \in DOMAIN self._buckets THEN self._buckets[key]
                               ELSE <<>>, window_start)
        put(h) == [self EXCEPT !._buckets =
                      [k \in DOMAIN self._buckets \cup {key} |->
                          IF k = key THEN h ELSE self._buckets[k]]]
    IN  IF rule = NoRule THEN [self |-> self, status_code |-> 0]
        ELSE IF Len(history) >= rule.limit
             THEN [self |-> put(history), status_code |-> 429]
             ELSE [self |-> put(Append(history, t)), status_code |-> 0]

\* the response is sent; the next request can be served
Return ==
    /\ resp.op # "idle"
    /\ resp' = Idle
    /\ UNCHANGED <<db, fb, now, FB_ENV, reqs, rate_limiter, served>>

\* time passes between requests
Tick ==
    /\ resp.op = "idle"
    /\ now < MaxNow
    /\ now' = now + 1
    /\ UNCHANGED <<db, fb, FB_ENV, resp, reqs, rate_limiter, served>>

Init ==
    /\ \E inst \in Installations : db = EmptyDb(inst[1]) /\ FB_ENV = inst[2]
    /\ fb = [live |-> {}, next |-> 1, made |-> {}]
    /\ rate_limiter = RateLimiter(RATE_LIMIT_RULES)
    /\ served = <<>>
    /\ now = 1
    /\ resp = Idle
    /\ reqs = <<>>

Next ==
    \/ CreateNews
    \/ CreateAnnouncement
    \/ UpdateNews
    \/ UpdateAnnouncement
    \/ DeleteNews
    \/ DeleteAnnouncement
    \/ GetNews
    \/ GetAnnouncement
    \/ Return
    \/ Tick

Spec == Init /\ [][Next]_vars

\* ------------------------------------------------- media lists
\* the sequential system with requests that carry media lists: lists of
\* live assets, lists naming an asset twice, the empty list
MediaCreatePayloads ==
    [title : {T_Hi}, slug : {NoText}, content_html : {B1},
     excerpt : {NoList}, meta_title : {NoList},
     status : {"draft", "published"}, publish_to_facebook : {TRUE},
     content_asset_public_ids :
        {NoList, Some(<<ImageAsset, VideoAsset, OtherAsset>>),
         Some(<<ImageAsset, ImageAsset>>)}]

MediaUpdatePayloads ==
    {[NoPayload EXCEPT !.content_asset_public_ids = l] :
        l \in {Some(<<>>), Some(<<OtherAsset, ImageAsset>>),
               Some(<<VideoAsset, VideoAsset>>), Some(<<ImageAsset, DeletedAsset>>)}}

MediaCreate == \E post_type \in PostType : Create(post_type, MediaCreatePayloads)

MediaUpdate == \E post_type \in PostType : Update(post_type, MediaUpdatePayloads)

MediaGet == \E post_type \in PostType : Get(post_type)

NextMedia ==
    \/ MediaCreate
    \/ MediaUpdate
    \/ MediaGet
    \/ Return

SpecMedia == Init /\ [][NextMedia]_vars

\* ------------------------------------------------- the media of a publish
\* attachment lists: none, a file that is neither image nor video, images
\* in both orders, videos in both orders among images, and eleven images
PublishLists ==
    {NoList, Some(<<PdfAsset>>), Some(<<ImageAsset, OtherAsset>>),
     Some(<<OtherAsset, ImageAsset, PdfAsset>>),
     Some(<<ImageAsset, VideoAsset, SecondVideoAsset>>),
     Some(<<SecondVideoAsset, OtherAsset, VideoAsset>>),
     Some(<<OtherAsset, ImageAsset>> \o ManyImages)}

PublishCreatePayloads ==
    [title : {T_Hi}, slug : {NoText}, content_html : {B1},
     excerpt : {NoList}, meta_title : {NoList},
     status : {"draft", "published"}, publish_to_facebook : {TRUE},
     content_asset_public_ids : PublishLists]

PublishUpdatePayloads == {[NoPayload EXCEPT !.status = "published"]}

\* the platform answers the token exchange; it accepts or refuses the
\* request that creates the post, and the upload of some photos
PublishOutcomes ==
    [exchange : {TRUE}, publish : {"ok", "fail"}, delete : {TRUE},
     rows : {"asc", "desc"}, photo_fail : {{}, {ImageAsset}, {ImageAsset, OtherAsset}}]

PublishCreate ==
    \E post_type \in PostType :
        CreateUnder(post_type, PublishCreatePayloads, PublishOutcomes)

PublishUpdate ==
    \E post_type \in PostType :
        UpdateUnder(post_type, PublishUpdatePayloads, PublishOutcomes)

NextPublish ==
    \/ PublishCreate
    \/ PublishUpdate
    \/ Return

SpecPublish == Init /\ [][NextPublish]_vars

\* ------------------------------------------------- the token lifecycle
\* GET /oauth/access_token (fb_exchange_token): the long-lived user token
\* and its lifetime, or ValueError when the platform refuses or is unreachable
exchange_long_lived_token(user, accepted, expires_in) ==
    [ok |-> accepted, access_token |-> user.facebook_user_access_token + 1,
     expires_in |-> expires_in]

\* POST /auth/facebook/link
link_facebook_page(ctx, accepted, expires_in) ==
    LET current_user == ctx.cur.user
        long_lived == exchange_long_lived_token(current_user, accepted, expires_in)
        expires_at == ctx.now + long_lived.expires_in
        page_info == get_page_token_from_user_token(current_user, ctx.out.exchange)
        linked == [current_user EXCEPT
                     !.facebook_user_access_token = long_lived.access_token,
                     !.facebook_user_token_expires_at = expires_at,
                     !.facebook_page_id = page_info.page_id,
                     !.facebook_access_token = page_info.access_token,
                     !.facebook_token_expires_at = page_info.expires_at,
                     !.facebook_page_name = page_info.name]
    IN  IF ~long_lived.ok \/ ~page_info.ok
        THEN ErrResult(ctx, 400, "facebook_link_failed")
        ELSE OkResult(commit([ctx EXCEPT !.cur.user = linked]))

\* users rows: not linked, half-filled, and linked with every combination
\* of page-token expiry and user token
TokenCreds ==
    {NotLinked, Cred(1, NULL, NULL, 1, MaxNow + 1), Cred(NULL, 1, NULL, 1, MaxNow + 1)}
    \cup {Cred(1, 1, te, ut[1], ut[2]) :
            te \in {NULL, 1, 2, MaxNow + 1},
            ut \in {<<NULL, NULL>>, <<1, NULL>>, <<1, 1>>, <<1, 2>>, <<1, MaxNow + 1>>}}

\* a token call publishes and deletes nothing
TokenOutcomes == {o \in Outcomes : o.publish = "ok" /\ o.delete}

TokenCreatePayloads ==
    [title : {T_Hi}, slug : {NoText}, content_html : {B1},
     excerpt : {NoList}, meta_title : {NoList},
     status : {"draft", "published"}, publish_to_facebook : {TRUE},
     content_asset_public_ids : {NoList}]

TokenUpdatePayloads ==
    {[NoPayload EXCEPT !.status = st] : st \in {"draft", "published"}}

\* what a get_valid_facebook_token call returned or raised
TokenServed(r, out) ==
    /\ db' = r.ctx.com
    /\ resp' = [op |-> "get_valid_token", ok |-> r.ok, page_id |-> r.page_id,
                access_token |-> r.access_token, exchanged |-> r.exchanged,
                error |-> r.error, exchange |-> out.exchange, before |-> db]
    /\ UNCHANGED <<fb, now, FB_ENV, reqs, rate_limiter, served>>

TokenGet ==
    /\ resp.op = "idle"
    /\ \E out \in TokenOutcomes :
          TokenServed(get_valid_facebook_token(NewSession(db, fb, now, FB_ENV, out)), out)

TokenLink ==
    /\ resp.op = "idle"
    /\ db.user.facebook_user_access_token < MaxLinks
    /\ \E accepted \in BOOLEAN, expires_in \in 1..2, out \in TokenOutcomes :
          Served("link", "none", NoPayload,
                 Raise(link_facebook_page(NewSession(db, fb, now, FB_ENV, out),
                                          accepted, expires_in), NULL))

TokenCreate == Create("news", TokenCreatePayloads)

TokenUpdate == Update("news", TokenUpdatePayloads)

InitToken ==
    /\ \E user \in TokenCreds, env \in {EnvUnset, EnvSet} :
          db = EmptyDb(user) /\ FB_ENV = env
    /\ fb = [live |-> {}, next |-> 1, made |-> {}]
    /\ rate_limiter = RateLimiter(RATE_LIMIT_RULES)
    /\ served = <<>>
    /\ now = 1
    /\ resp = Idle
    /\ reqs = <<>>

NextToken ==
    \/ TokenGet
    \/ TokenLink
    \/ TokenCreate
    \/ TokenUpdate
    \/ Return
    \/ Tick

SpecToken == InitToken /\ [][NextToken]_vars

\* ------------------------------------------------- the unpublish call
\* delete_facebook_post called with the user's pair or with none
Unpublish ==
    /\ resp.op = "idle"
    /\ \E fb_post_id \in 1..MaxRemote, with_credential \in BOOLEAN, out \in DeleteOutcomes :
          LET page_id == IF with_credential THEN db.user.facebook_page_id ELSE NULL
              access_token == IF with_credential THEN db.user.facebook_access_token
                              ELSE NULL
              r == delete_facebook_post(NewSession(db, fb, now, FB_ENV, out),
                                        fb_post_id, page_id, access_token)
          IN  /\ db' = r.ctx.com
              /\ fb' = r.ctx.fb
              /\ resp' = [op |-> "unpublish", fb_post_id |-> fb_post_id,
                          page_id |-> page_id, access_token |-> access_token,
                          delete |-> out.delete, success |-> r.success,
                          raised |-> r.raised, before |-> db, fb_before |-> fb]
    /\ UNCHANGED <<now, FB_ENV, reqs, rate_limiter, served>>

NextUnpublish ==
    \/ TokenCreate
    \/ TokenUpdate
    \/ DeleteNews
    \/ Unpublish
    \/ Return

SpecUnpublish == Init /\ [][NextUnpublish]_vars

\* ------------------------------------------------- partial updates
\* the form of PUT /admin/news/{id}: every text field is absent (None),
\* empty or filled
OptionalText(value) == {NoList, Some(<<>>), Some(value)}

UpdateForms ==
    [title : OptionalText(T_Yo), content_html : OptionalText(B2),
     excerpt : OptionalText(B2), meta_title : OptionalText(B2),
     status : {"None", "published"}, publish_to_facebook : {"None"},
     content_asset_public_ids : {NoList, Some(<<>>), Some(<<OtherAsset>>)}]

\* Field(min_length=1): title and content_html of an update, when given,
\* are not empty
MinLength(field) == field.present => Len(field.v) >= 1

\* NewsUpdate(...) / AnnouncementUpdate(...) built by the route: the
\* validated payload of the service, slug always None
NewsUpdate(form) ==
    [ok |-> MinLength(form.title) /\ MinLength(form.content_html),
     payload |-> [title |-> form.title.v, slug |-> NoText,
                  content_html |-> form.content_html.v,
                  excerpt |-> form.excerpt, meta_title |-> form.meta_title,
                  status |-> form.status,
                  publish_to_facebook |-> form.publish_to_facebook,
                  content_asset_public_ids |-> form.content_asset_public_ids]]

FieldsCreatePayloads ==
    [title : {T_Hi}, slug : {NoText}, content_html : {B1},
     excerpt : {NoList, Some(B1)}, meta_title : {Some(B1)},
     status : {"draft", "published"}, publish_to_facebook : {TRUE},
     content_asset_public_ids : {Some(<<ImageAsset>>)}]

FieldsCreate == Create("news", FieldsCreatePayloads)

\* the platform answers the token exchange and the delete; it accepts or
\* refuses the publish
FieldsOutcomes == {o \in Outcomes : o.exchange /\ o.delete /\ o.publish # "ok_then_fail"}

\* a ValidationError in the route is answered by the general handler
FieldsUpdate ==
    /\ resp.op = "idle"
    /\ Len(db.post_revisions) < MaxRevisions
    /\ fb.next < MaxRemote
    /\ \E id \in PostIds("news"), form \in UpdateForms, out \in FieldsOutcomes :
          LET ctx == NewSession(db, fb, now, FB_ENV, out)
              checked == NewsUpdate(form)
          IN  Served("update", "news", form,
                     IF checked.ok
                     THEN update_news(ctx, id, checked.payload, TRUE)
                     ELSE Raise(ErrResult(ctx, 500, "internal_server_error"), id))

NextFields ==
    \/ FieldsCreate
    \/ FieldsUpdate
    \/ Return

SpecFields == Init /\ [][NextFields]_vars

\* ------------------------------------------------- slugify on its own
\* an uppercase letter, a lowercase letter, a digit, a hyphen, a space, a
\* separator, a character that is dropped, a character of vietnamese_map
\* and one that only NFD decomposes
SlugAlphabet == {"H", "i", "1", "-", " ", "_", "@", "a_acute", "U_UML"}

Texts == UNION {[1..n -> SlugAlphabet] : n \in 0..MaxLen}

\* slugify(value)
Slugify ==
    /\ resp.op = "text"
    /\ resp' = [op |-> "slugify", value |-> resp.value, slug |-> slugify(resp.value)]
    /\ UNCHANGED <<db, fb, now, FB_ENV, reqs, rate_limiter, served>>

\* slugify(slugify(value))
SlugifyAgain ==
    /\ resp.op = "slugify"
    /\ resp' = [op |-> "slugify_again", value |-> resp.value, slug |-> resp.slug,
                again |-> slugify(resp.slug)]
    /\ UNCHANGED <<db, fb, now, FB_ENV, reqs, rate_limiter, served>>

InitSlug ==
    /\ db = EmptyDb(NotLinked)
    /\ FB_ENV = EnvUnset
    /\ fb = [live |-> {}, next |-> 1, made |-> {}]
    /\ rate_limiter = RateLimiter(RATE_LIMIT_RULES)
    /\ served = <<>>
    /\ now = 1
    /\ \E value \in Texts : resp = [op |-> "text", value |-> value]
    /\ reqs = <<>>

NextSlug ==
    \/ Slugify
    \/ SlugifyAgain

SpecSlug == InitSlug /\ [][NextSlug]_vars

\* ------------------------------------------------- reads and the push trigger
\* admin list_news / list_announcements
admin_list(cur, post_type) ==
    {id \in DOMAIN cur.posts :
        cur.posts[id].post_type = post_type /\ cur.posts[id].deleted_at = NULL}

\* public list_news / list_announcements
public_list(cur, post_type) ==
    {id \in admin_list(cur, post_type) : cur.posts[id].status = "published"}

\* get_news_by_slug / get_announcement_by_slug_or_id
public_by_slug(cur, post_type, slug) ==
    {id \in public_list(cur, post_type) : cur.posts[id].slug = slug}

\* Post.type in a query: the type column of the row
Post_type(post) == post.post_type

\* the rows the select of send_push_for_announcement matches; db.scalar
\* takes the first of them
send_push_for_announcement(cur, slug, vapid) ==
    LET announcement == {id \in DOMAIN cur.posts :
                            /\ cur.posts[id].slug = slug
                            /\ Post_type(cur.posts[id]) = "announcement"
                            /\ cur.posts[id].status = "published"}
    IN  IF ~vapid \/ announcement = {}
        THEN [status_code |-> 400, code |-> "push_error", returned |-> {}]
        ELSE [status_code |-> 200, code |-> "", returned |-> announcement]

ReadSlugs == {slugify(T_Hi), slugify(T_Yo)}

\* a read answered with the rows it selected
ReadServed(op, post_type, status_code, code, returned) ==
    /\ resp' = [op |-> op, post_type |-> post_type, status_code |-> status_code,
                code |-> code, returned |-> returned, before |-> db]
    /\ UNCHANGED <<db, fb, now, FB_ENV, reqs, rate_limiter, served>>

AdminList ==
    /\ resp.op = "idle"
    /\ \E post_type \in PostType :
          ReadServed("admin_list", post_type, 200, "", admin_list(db, post_type))

PublicList ==
    /\ resp.op = "idle"
    /\ \E post_type \in PostType :
          ReadServed("public_list", post_type, 200, "", public_list(db, post_type))

PublicDetail ==
    /\ resp.op = "idle"
    /\ \E post_type \in PostType, slug \in ReadSlugs :
          LET found == public_by_slug(db, post_type, slug)
          IN  IF found = {}
              THEN ReadServed("public_detail", post_type, 404, NotFoundCode(post_type), {})
              ELSE \E id \in found : ReadServed("public_detail", post_type, 200, "", {id})

\* POST /admin/push/announcement/{slug}
Push ==
    /\ resp.op = "idle"
    /\ \E slug \in ReadSlugs, vapid \in BOOLEAN :
          LET r == send_push_for_announcement(db, slug, vapid)
          IN  IF r.returned = {}
              THEN ReadServed("push", "announcement", r.status_code, r.code, {})
              ELSE \E id \in r.returned :
                      ReadServed("push", "announcement", r.status_code, r.code, {id})

ReadsCreate == \E post_type \in PostType : Create(post_type, TokenCreatePayloads)

ReadsDelete == \E post_type \in PostType : Delete(post_type)

ReadsGet == \E post_type \in PostType : Get(post_type)

NextReads ==
    \/ ReadsCreate
    \/ ReadsDelete
    \/ ReadsGet
    \/ AdminList
    \/ PublicList
    \/ PublicDetail
    \/ Push
    \/ Return

SpecReads == Init /\ [][NextReads]_vars

\* ------------------------------------------------ concurrent requests
\* Requests run in their own Session and transaction (READ COMMITTED): a
\* SELECT sees what is committed when it runs, an INSERT or UPDATE is checked
\* against the unique index when it is flushed and waits for a transaction
\* holding a conflicting uncommitted row.  A request is split where its
\* code talks to the database: the lookup and the slug SELECT, the flush of
\* its row, the commit.
ConcTitles == {T_Hi, T_hi, T_Yo}

IdleReq ==
    [pc |-> "idle", op |-> "none", post_type |-> "none", id |-> NULL,
     title |-> NoText, slug |-> NoText]

Slots == DOMAIN reqs

InFlight == Cardinality({i \in Slots : reqs[i].pc \in {"checked", "flushed"}})

\* sa.Index("uq_posts_type_slug_active", "type", "slug", unique=True,
\*          postgresql_where=text("deleted_at IS NULL"))
uq_posts_type_slug_active_dropped(posts) == TRUE

uq_posts_type_slug_active(posts) ==
    \A i, j \in DOMAIN posts :
        ( /\ i # j
          /\ posts[i].deleted_at = NULL
          /\ posts[j].deleted_at = NULL
          /\ posts[i].post_type = posts[j].post_type )
        => posts[i].slug # posts[j].slug

\* the row a request writes: the INSERT of a create, the UPDATE of a retitle
ConcWrite(posts, r) ==
    IF r.op = "create"
    THEN Append(posts, NewPost(r.post_type, "draft", r.title, r.slug, B1, NULL))
    ELSE [posts EXCEPT ![r.id].title = r.title, ![r.id].slug = r.slug]

RECURSIVE ConcWriteAll(_, _)
ConcWriteAll(posts, S) ==
    IF S = {} THEN posts
    ELSE LET i == CHOOSE x \in S : \A y \in S : x <= y
         IN  ConcWriteAll(ConcWrite(posts, reqs[i]), S \ {i})

\* the other transactions that hold a flushed, uncommitted row
Uncommitted(i) == {j \in Slots \ {i} : reqs[j].pc = "flushed"}

\* another transaction holds the lock of row id
RowLocked(i, id) ==
    \E j \in Uncommitted(i) : reqs[j].op = "update" /\ reqs[j].id = id

\* a worker takes a request when it is free: the free worker of lowest number
FreeSlot(i) ==
    /\ reqs[i].pc = "idle"
    /\ \A j \in Slots : reqs[j].pc = "idle" => i <= j

\* the request of worker i ends: its response is the latest one sent
ConcDone(i, r, status_code, code) ==
    /\ reqs' = [reqs EXCEPT ![i] = IdleReq]
    /\ resp' = [op |-> r.op, post_type |-> r.post_type, id |-> r.id,
                payload |-> [NoPayload EXCEPT !.title = r.title],
                status_code |-> status_code, code |-> code, missing |-> {},
                calls |-> <<>>, before |-> db, fb_before |-> fb]

\* create_*: slugify, _ensure_unique_slug
ConcCreateBegin ==
    \E i \in Slots, post_type \in PostType, title \in ConcTitles :
        LET slug == slugify(title)
            r == [IdleReq EXCEPT !.op = "create", !.post_type = post_type,
                                 !.title = title, !.slug = slug]
            uniq == _ensure_unique_slug(post_type, NewSession(db, fb, now, FB_ENV,
                                                              CHOOSE o \in Outcomes : TRUE),
                                        slug, NULL)
        IN  /\ FreeSlot(i)
            /\ Len(db.post_revisions) + InFlight < MaxItems
            /\ IF uniq.ok
               THEN /\ reqs' = [reqs EXCEPT ![i] = [r EXCEPT !.pc = "checked"]]
                    /\ UNCHANGED resp
               ELSE ConcDone(i, r, uniq.status_code, uniq.code)
            /\ UNCHANGED <<db, fb, now, FB_ENV, rate_limiter, served>>

\* update_*: the lookup, slugify, _ensure_unique_slug excluding the row
ConcUpdateBegin ==
    \E i \in Slots, post_type \in PostType, id \in DOMAIN db.posts, title \in ConcTitles :
        LET slug == slugify(title)
            r == [IdleReq EXCEPT !.op = "update", !.post_type = post_type, !.id = id,
                                 !.title = title, !.slug = slug]
            uniq == _ensure_unique_slug(post_type, NewSession(db, fb, now, FB_ENV,
                                                              CHOOSE o \in Outcomes : TRUE),
                                        slug, id)
        IN  /\ FreeSlot(i)
            /\ db.posts[id].post_type = post_type
            /\ Len(db.post_revisions) + InFlight < MaxItems
            /\ IF ~PostExists(db, post_type, id)
               THEN ConcDone(i, r, 404, NotFoundCode(post_type))
               ELSE IF uniq.ok
                    THEN /\ reqs' = [reqs EXCEPT ![i] = [r EXCEPT !.pc = "checked"]]
                         /\ UNCHANGED resp
                    ELSE ConcDone(i, r, uniq.status_code, uniq.code)
            /\ UNCHANGED <<db, fb, now, FB_ENV, rate_limiter, served>>

\* db.flush(): the row reaches the database and the unique index
ConcFlush ==
    \E i \in Slots :
        LET r == reqs[i]
            pending == ConcWriteAll(db.posts, Uncommitted(i))
        IN  /\ r.pc = "checked"
            /\ r.op = "update" => ~RowLocked(i, r.id)
            /\ IF ~uq_posts_type_slug_active(ConcWrite(db.posts, r))
               THEN ConcDone(i, r, 500, "integrity_error")
               ELSE /\ uq_posts_type_slug_active(ConcWrite(pending, r))
                    /\ reqs' = [reqs EXCEPT ![i].pc = "flushed"]
                    /\ UNCHANGED resp
            /\ UNCHANGED <<db, fb, now, FB_ENV, rate_limiter, served>>

\* the Revision is added and the transaction committed
ConcCommit ==
    \E i \in Slots :
        LET r == reqs[i]
            posts == ConcWrite(db.posts, r)
            id == IF r.op = "create" THEN Len(posts) ELSE r.id
            revision == [post_id |-> id, title |-> posts[id].title,
                         excerpt |-> posts[id].excerpt,
                         content_html |-> posts[id].content_html]
        IN  /\ r.pc = "flushed"
            /\ db' = [db EXCEPT !.posts = posts, !.post_revisions = Append(@, revision)]
            /\ ConcDone(i, [r EXCEPT !.id = id], IF r.op = "create" THEN 201 ELSE 200, "")
            /\ UNCHANGED <<fb, now, FB_ENV, rate_limiter, served>>

\* an exception after the flush (an unresolvable media id, a failed publish):
\* the session is closed without a commit
ConcAbort ==
    \E i \in Slots :
        /\ reqs[i].pc = "flushed"
        /\ ConcDone(i, reqs[i], 500, "aborted")
        /\ UNCHANGED <<db, fb, now, FB_ENV, rate_limiter, served>>

\* delete_*: the lookup, deleted_at = now, commit
ConcDelete ==
    \E i \in Slots, post_type \in PostType, id \in DOMAIN db.posts :
        LET r == [IdleReq EXCEPT !.op = "delete", !.post_type = post_type, !.id = id]
        IN  /\ FreeSlot(i)
            /\ db.posts[id].post_type = post_type
            /\ ~RowLocked(i, id)
            /\ IF PostExists(db, post_type, id)
               THEN /\ db' = [db EXCEPT !.posts[id].deleted_at = now]
                    /\ ConcDone(i, r, 204, "")
               ELSE /\ ConcDone(i, r, 404, NotFoundCode(post_type))
                    /\ UNCHANGED db
            /\ UNCHANGED <<fb, now, FB_ENV, rate_limiter, served>>

InitConc ==
    /\ db = EmptyDb(NotLinked)
    /\ FB_ENV = EnvUnset
    /\ fb = [live |-> {}, next |-> 1, made |-> {}]
    /\ rate_limiter = RateLimiter(RATE_LIMIT_RULES)
    /\ served = <<>>
    /\ now = 1
    /\ resp = Idle
    /\ reqs = [i \in 1..MaxRequests |-> IdleReq]

NextConc ==
    \/ ConcCreateBegin
    \/ ConcUpdateBegin
    \/ ConcFlush
    \/ ConcCommit
    \/ ConcAbort
    \/ ConcDelete

SpecConc == InitConc /\ [][NextConc]_vars

\* ------------------------------------------------ concurrent token calls
\* Requests of one user, each with its own Session: get_current_user loads
\* the users row, get_valid_facebook_token checks the loaded row and asks
\* the platform, db.commit() writes.  The calls are not serialized.
NoPageInfo ==
    [ok |-> FALSE, page_id |-> NULL, access_token |-> NULL, name |-> NULL,
     expires_at |-> NULL]

IdleRefresh ==
    [pc |-> "idle", user |-> NotLinked, page_info |-> NoPageInfo, ok |-> FALSE,
     page_id |-> NULL, access_token |-> NULL, exchanged |-> FALSE]

\* what GET /me/accounts answers at the time of a call: the first page of
\* the account, its name and a page token
PageAnswers ==
    [ok : {TRUE}, page_id : {1, 2}, access_token : {2, 3}, name : {1, 2},
     expires_at : {NULL}]

\* users rows at the start: page token expired with the user token valid,
\* page token without expiry, both tokens expired
RefreshCreds == {Cred(1, 1, 1, 1, MaxNow + 1), LinkedForever, LinkedExpired}

\* the UPDATE the Session emits at flush: SET holds the attributes whose
\* value differs from the one loaded, the other columns keep what the row
\* has by then
OrmUpdate(row, loaded, assigned) ==
    [f \in DOMAIN row |-> IF assigned[f] # loaded[f] THEN assigned[f] ELSE row[f]]

\* get_current_user: select(User) in the Session of the request
RefreshLoad ==
    \E i \in Slots :
        /\ reqs[i].pc = "idle"
        /\ reqs' = [reqs EXCEPT ![i].pc = "loaded", ![i].user = db.user]
        /\ UNCHANGED <<db, fb, now, FB_ENV, resp, rate_limiter, served>>

\* get_valid_facebook_token up to the answer of GET /me/accounts: the
\* stored pair is returned, or the call raises, or the platform answers
RefreshExchange ==
    \E i \in Slots, answer \in PageAnswers \cup {NoPageInfo} :
        LET refused == [exchange |-> FALSE, publish |-> "ok", delete |-> TRUE,
                        rows |-> "asc", photo_fail |-> {}]
            checked == get_valid_facebook_token(
                           NewSession([db EXCEPT !.user = reqs[i].user], fb, now,
                                      FB_ENV, refused))
        IN  /\ reqs[i].pc = "loaded"
            /\ IF checked.error = "exchange_failed" /\ answer.ok
               THEN reqs' = [reqs EXCEPT ![i].pc = "exchanged",
                                         ![i].page_info = answer,
                                         ![i].exchanged = TRUE]
               ELSE reqs' = [reqs EXCEPT ![i].pc = "done", ![i].ok = checked.ok,
                                         ![i].page_id = checked.page_id,
                                         ![i].access_token = checked.access_token]
            /\ UNCHANGED <<db, fb, now, FB_ENV, resp, rate_limiter, served>>

\* user.<fields> = page_info...; db.add(user); db.commit(); return
RefreshWrite ==
    \E i \in Slots :
        LET loaded == reqs[i].user
            page_info == reqs[i].page_info
            assigned == [loaded EXCEPT
                           !.facebook_page_id = page_info.page_id,
                           !.facebook_access_token = page_info.access_token,
                           !.facebook_token_expires_at = page_info.expires_at,
                           !.facebook_page_name = page_info.name]
        IN  /\ reqs[i].pc = "exchanged"
            /\ db' = [db EXCEPT !.user = OrmUpdate(db.user, loaded, assigned)]
            /\ reqs' = [reqs EXCEPT ![i].pc = "done", ![i].ok = TRUE,
                                    ![i].page_id = page_info.page_id,
                                    ![i].access_token = page_info.access_token]
            /\ UNCHANGED <<fb, now, FB_ENV, resp, rate_limiter, served>>

InitRefresh ==
    /\ \E user \in RefreshCreds : db = EmptyDb(user)
    /\ FB_ENV = EnvUnset
    /\ fb = [live |-> {}, next |-> 1, made |-> {}]
    /\ rate_limiter = RateLimiter(RATE_LIMIT_RULES)
    /\ served = <<>>
    /\ now = 1
    /\ resp = Idle
    /\ reqs = [i \in 1..MaxRequests |-> IdleRefresh]

NextRefresh ==
    \/ RefreshLoad
    \/ RefreshExchange
    \/ RefreshWrite

SpecRefresh == InitRefresh /\ [][NextRefresh]_vars

\* ------------------------------------------------- requests and the limiter
MaxClock == 4
MaxServed == 4

\* requests as the middleware sees them: path, x-forwarded-for, peer
RateRequests ==
    {[path |-> <<"contact">>, xff |-> <<>>, client |-> "10.0.0.1"],
     [path |-> <<"contact", "x">>, xff |-> <<"10.0.0.2", "10.0.0.1">>, client |-> "10.0.0.1"],
     [path |-> <<"auth", "local", "signin">>, xff |-> <<>>, client |-> "10.0.0.1"],
     [path |-> <<"auth", "local", "signin">>, xff |-> <<>>, client |-> "None"],
     [path |-> <<"news">>, xff |-> <<>>, client |-> "10.0.0.1"]}

\* log_requests up to call_next: check runs without an await, so the checks
\* of concurrent requests run one after the other on the event loop; an
\* admitted request is then in flight with the others
RateCheck ==
    \E request \in RateRequests :
        LET r == check(rate_limiter, request, now)
        IN  /\ Len(served) < MaxServed
            /\ r.status_code = 0 => Cardinality(reqs) < MaxRequests
            /\ rate_limiter' = r.self
            /\ served' = Append(served, [request |-> request, at |-> now,
                                         status_code |-> r.status_code])
            /\ reqs' = IF r.status_code = 0 THEN reqs \cup {Len(served) + 1} ELSE reqs
            /\ UNCHANGED <<db, fb, now, FB_ENV, resp>>

\* response = await call_next(request); return response
RateRespond ==
    \E i \in reqs :
        /\ reqs' = reqs \ {i}
        /\ UNCHANGED <<db, fb, now, FB_ENV, resp, rate_limiter, served>>

\* time.time() advances
ClockTick ==
    /\ now < MaxClock
    /\ now' = now + 1
    /\ UNCHANGED <<db, fb, FB_ENV, resp, reqs, rate_limiter, served>>

InitRate ==
    /\ db = EmptyDb(NotLinked)
    /\ FB_ENV = EnvUnset
    /\ fb = [live |-> {}, next |-> 1, made |-> {}]
    /\ rate_limiter = RateLimiter(RATE_LIMIT_RULES)
    /\ served = <<>>
    /\ now = 1
    /\ resp = Idle
    /\ reqs = {}

NextRate ==
    \/ RateCheck
    \/ RateRespond
    \/ ClockTick

SpecRate == InitRate /\ [][NextRate]_vars

\* ------------------------------------------------ reading a response
Before(id) == resp.before.posts[id]

After(id) == db.posts[id]

LogRows(d, id) == {l \in d.facebook_post_log : l.post_id = id}

RecordedId == _get_facebook_post_id(resp.before, resp.id)

Unpublishes == SelectSeq(resp.calls, LAMBDA c : c.fn = "unpublish")

Publishes == SelectSeq(resp.calls, LAMBDA c : c.fn = "publish")

\* the update addressed a row that existed and was not deleted
UpdateOfLive ==
    /\ resp.op = "update"
    /\ resp.id \in DOMAIN resp.before.posts
    /\ PostExists(resp.before, resp.post_type, resp.id)

\* the request was not rejected by the validation of its own input
PassedValidation ==
    resp.code \notin {"invalid_slug", "slug_conflict", "slug_not_unique", "invalid_asset"}

SyncRequested == resp.payload.publish_to_facebook \in {"None", "True"}

KeepsPublished ==
    /\ UpdateOfLive
    /\ Before(resp.id).status = "published"
    /\ resp.payload.status \in {"None", "published"}

ContentTables(d) ==
    <<d.posts, d.post_assets, d.post_revisions, d.facebook_post_log>>

\* C1: an update draft/archived -> published with sync requested whose
\* Publisher step fails leaves status, publish timestamp, title, slug and
\* body as they were and leaves the item without a PublishRecord, whatever
\* the credential of the acting user.
C1_FailedPublishRollsBack ==
    ( /\ UpdateOfLive
      /\ Before(resp.id).status \in {"draft", "archived"}
      /\ resp.payload.status = "published"
      /\ SyncRequested
      /\ resp.code = "facebook_post_failed" )
    => /\ After(resp.id) = Before(resp.id)
       /\ LogRows(db, resp.id) = {}

\* C2: a create with status published and sync requested whose Publisher
\* step fails ends with a 500-class error and leaves no ContentItem,
\* MediaAttachment, Revision or PublishRecord behind.
C2_FailedCreateLeavesNothing ==
    ( /\ resp.op = "create"
      /\ resp.payload.status = "published"
      /\ resp.payload.publish_to_facebook = "True"
      /\ resp.code = "facebook_post_failed" )
    => /\ resp.status_code >= 500
       /\ ContentTables(db) = ContentTables(resp.before)

\* C3: an update published -> draft/archived of an item whose PublishRecord
\* has a remote id calls unpublish with that id, and the item gets the
\* requested status with the publish timestamp cleared, whatever unpublish
\* answers.
C3Case ==
    /\ UpdateOfLive
    /\ Before(resp.id).status = "published"
    /\ RecordedId # NULL
    /\ resp.payload.status \in {"draft", "archived"}
    /\ PassedValidation

C3_UnpublishOnLeavingPublished ==
    C3Case
    => /\ resp.status_code = 200
       /\ Len(Unpublishes) >= 1
       /\ \A i \in DOMAIN Unpublishes : Unpublishes[i].id = RecordedId
       /\ After(resp.id).status = resp.payload.status
       /\ After(resp.id).published_at = NULL

C3_Witness ==
    /\ C3Case
    /\ Len(Unpublishes) = 1
    /\ ~Unpublishes[1].ok
    /\ After(resp.id).status = "archived"

\* C4: a content edit of an item that is and stays published, has a
\* PublishRecord with a remote id and has sync enabled makes exactly one
\* unpublish call, for the recorded id, before any publish call; when the
\* update goes through it made exactly one publish call after it, and the
\* PublishRecord then holds the id that call returned, not the old one.
C4Case ==
    /\ KeepsPublished
    /\ RecordedId # NULL
    /\ SyncRequested
    /\ has_content_changes(resp.payload)
    /\ PassedValidation

C4_EditRepublishes ==
    C4Case
    => /\ Len(Unpublishes) = 1
       /\ resp.calls[1].fn = "unpublish"
       /\ resp.calls[1].id = RecordedId
       /\ Len(Publishes) <= 1
       /\ resp.status_code = 200
          => /\ Len(Publishes) = 1
             /\ resp.calls = <<Unpublishes[1], Publishes[1]>>
             /\ Publishes[1].ok
             /\ Publishes[1].id # RecordedId
             /\ LogRows(db, resp.id) =
                  {[post_id |-> resp.id, fb_post_id |-> Publishes[1].id,
                    status |-> SUCCEEDED]}

C4_Witness ==
    /\ C4Case
    /\ resp.status_code = 200
    /\ resp.payload.content_html = B2
    /\ Len(Publishes) = 1
    /\ _get_facebook_post_id(db, resp.id) = Publishes[1].id

\* C5 as stated: when the re-publish call of a content edit of a published
\* item fails, the update succeeds and the edited fields and the new
\* Revision are committed.
C5Case ==
    /\ C4Case
    /\ Len(Publishes) >= 1
    /\ ~Publishes[Len(Publishes)].ok

C6Case ==
    /\ KeepsPublished
    /\ RecordedId # NULL
    /\ resp.payload.publish_to_facebook = "False"
    /\ PassedValidation

C6_SyncOffUnpublishes ==
    C6Case
    => /\ Len(Unpublishes) >= 1
       /\ \A i \in DOMAIN Unpublishes : Unpublishes[i].id = RecordedId
       /\ Publishes = <<>>
       /\ After(resp.id).status = Before(resp.id).status
       /\ After(resp.id).published_at = Before(resp.id).published_at

\* C7: a delete keeps the row and sets its deletion timestamp; the remote
\* post of a published item is unpublished before the timestamp is set and
\* whatever the answer the delete goes through; a deleted item stays
\* deleted, and every later get, update or delete of it answers not-found
\* and changes nothing.
DeleteOfLive ==
    /\ resp.op = "delete"
    /\ PostExists(resp.before, resp.post_type, resp.id)

OnDeleted ==
    /\ resp.op \in {"get", "update", "delete"}
    /\ resp.id \in DOMAIN resp.before.posts
    /\ Before(resp.id).deleted_at # NULL

C7_SoftDeleteIsTerminal ==
    /\ DeleteOfLive
       => /\ resp.status_code = 204
          /\ Len(db.posts) = Len(resp.before.posts)
          /\ After(resp.id).deleted_at # NULL
          /\ [After(resp.id) EXCEPT !.deleted_at = NULL] = Before(resp.id)
          /\ Before(resp.id).status = "published" /\ RecordedId # NULL
             => /\ Len(Unpublishes) = 1
                /\ Unpublishes[1].id = RecordedId
                /\ ~Unpublishes[1].row_deleted
    /\ OnDeleted
       => /\ resp.status_code = 404
          /\ resp.calls = <<>>
          /\ db = resp.before
          /\ fb = resp.fb_before
    /\ \A i \in DOMAIN resp.before.posts :
          /\ i \in DOMAIN db.posts
          /\ resp.before.posts[i].deleted_at # NULL
             => db.posts[i] = resp.before.posts[i]

C7_Witness ==
    /\ OnDeleted
    /\ resp.op = "update"
    /\ resp.payload.status = "published"
    /\ Before(resp.id).status = "published"
    /\ LogRows(db, resp.id) # {}
    /\ resp.status_code = 404

\* C10: a create or update whose media list holds a public id that does
\* not resolve to a non-deleted asset fails, naming exactly the
\* unresolvable ids, and leaves the database as it was: the item keeps its
\* attachments and fields, a create leaves no item and no attachment.
Unresolvable(ids) ==
    {pid \in Range(ids) :
        ~\E a \in Asset : a.public_id = pid /\ a.deleted_at = NULL}

C10Case ==
    /\ resp.op \in {"create", "update"}
    /\ resp.op = "update" => UpdateOfLive
    /\ Unresolvable(resp.payload.content_asset_public_ids.v) # {}
    /\ resp.code \notin {"invalid_slug", "slug_conflict", "slug_not_unique"}

C10_AssetResolutionAllOrNothing ==
    C10Case
    => /\ resp.status_code = 400
       /\ resp.code = "invalid_asset"
       /\ resp.missing = Unresolvable(resp.payload.content_asset_public_ids.v)
       /\ db = resp.before
       /\ resp.calls = <<>>

C10_Witness ==
    /\ C10Case
    /\ resp.op = "update"
    /\ resp.payload.title = T_Yo
    /\ resp.missing = {DeletedAsset, UnknownAsset}
    /\ \E pa \in db.post_assets : pa.post_id = resp.id

HeldBefore ==
    \E k \in DOMAIN resp.before.posts :
        /\ resp.before.posts[k].post_type = resp.post_type
        /\ resp.before.posts[k].slug = slugify(resp.payload.title)
        /\ resp.before.posts[k].deleted_at = NULL
        /\ k # resp.id

C9_SlugConflictIs409 ==
    ( /\ resp.op \in {"create", "update"}
      /\ resp.payload.title # NoText
      /\ slugify(resp.payload.title) # NoText
      /\ resp.status_code # 404
      /\ resp.code \notin {"integrity_error", "aborted"} )
    => IF HeldBefore
       THEN resp.status_code = 409 /\ resp.code = "slug_conflict" /\ db = resp.before
       ELSE resp.status_code \in {200, 201}

\* C11: an update that supplies a media list replaces the attachments of
\* the item: the read-back shows exactly the supplied assets at positions
\* 0..n-1 in the supplied order, the assets left out stay stored, and in
\* every state positions and assets are unique within an item.
MediaList == resp.payload.content_asset_public_ids.v

C11Case ==
    /\ UpdateOfLive
    /\ resp.payload.content_asset_public_ids.present
    /\ resp.status_code = 200

C11_MediaListReplaces ==
    /\ C11Case
       => /\ _to_news_out(db, resp.id) =
               [i \in DOMAIN MediaList |-> [position |-> i - 1, public_id |-> MediaList[i]]]
          /\ Cardinality({pa \in db.post_assets : pa.post_id = resp.id}) = Len(MediaList)
          /\ \A pa \in resp.before.post_assets :
                \E a \in Asset : a.id = pa.asset_id /\ a.deleted_at = NULL
    /\ \A x, y \in db.post_assets :
          (x.post_id = y.post_id /\ x # y)
          => x.position # y.position /\ x.asset_id # y.asset_id

C11_Witness ==
    /\ C11Case
    /\ MediaList = <<OtherAsset, ImageAsset>>
    /\ Len(_to_news_out(resp.before, resp.id)) = 3
    /\ _to_news_out(db, resp.id) =
         <<[position |-> 0, public_id |-> OtherAsset],
           [position |-> 1, public_id |-> ImageAsset]>>

\* ---------------------------------------------------------------- C12
HasPage(user) == user.facebook_page_id # NULL /\ user.facebook_access_token # NULL

\* the stored page token has no expiry, or one in the future
PageTokenValid(user, t) ==
    /\ HasPage(user)
    /\ \/ user.facebook_token_expires_at = NULL
       \/ user.facebook_token_expires_at > t

PageTokenExpired(user, t) == HasPage(user) /\ ~PageTokenValid(user, t)

TokenCall == resp.op = "get_valid_token"

\* C12: get_valid_token of a user without a stored page token or page id
\* fails with NotLinked; of a user whose stored page token has no expiry or
\* an expiry in the future it returns the stored (page id, token) pair,
\* makes no exchange call and leaves every field of the Credential unchanged.
C12_StoredTokenReturned ==
    TokenCall
    => LET user == resp.before.user
       IN  /\ ~HasPage(user)
              => ~resp.ok /\ resp.error = "not_linked" /\ ~resp.exchanged
                 /\ db.user = user
           /\ PageTokenValid(user, now)
              => /\ resp.ok
                 /\ resp.page_id = user.facebook_page_id
                 /\ resp.access_token = user.facebook_access_token
                 /\ ~resp.exchanged
                 /\ db.user = user

\* a token that expires later is returned as stored
C12_Witness ==
    /\ TokenCall
    /\ resp.before.user.facebook_token_expires_at # NULL
    /\ PageTokenValid(resp.before.user, now)
    /\ resp.ok
    /\ resp.access_token = resp.before.user.facebook_access_token

\* ---------------------------------------------------------------- C13
UserTokenValid(user, t) ==
    /\ PageTokenExpired(user, t)
    /\ user.facebook_user_access_token # NULL
    /\ \/ user.facebook_user_token_expires_at = NULL
       \/ user.facebook_user_token_expires_at > t

\* the page token had expired, the user token had not, the platform answered
C13Case == TokenCall /\ UserTokenValid(resp.before.user, now) /\ resp.exchange

\* C13: with the page token expired and the user token stored and not
\* expired, get_valid_token exchanges, persists the new page token, its
\* expiry and the page id, and returns the new pair; the Credential is then
\* PageTokenValid, and a get_valid_token that follows immediately returns
\* the same pair without another exchange, whatever the platform would answer.
C13_RefreshThenStable ==
    C13Case
    => /\ resp.ok /\ resp.exchanged
       /\ resp.access_token # resp.before.user.facebook_access_token
       /\ db.user.facebook_access_token = resp.access_token
       /\ db.user.facebook_page_id = resp.page_id
       /\ db.user.facebook_token_expires_at = NULL
       /\ PageTokenValid(db.user, now)
       /\ \A out \in TokenOutcomes :
             LET again == get_valid_facebook_token(NewSession(db, fb, now, FB_ENV, out))
             IN  /\ again.ok /\ ~again.exchanged
                 /\ again.page_id = resp.page_id
                 /\ again.access_token = resp.access_token
                 /\ again.ctx.com.user = db.user

C13_Witness == C13Case /\ resp.exchanged /\ now = MaxNow

\* ---------------------------------------------------------------- C14
UserTokenExpired(user, t) ==
    /\ PageTokenExpired(user, t)
    /\ user.facebook_user_access_token # NULL
    /\ user.facebook_user_token_expires_at # NULL
    /\ user.facebook_user_token_expires_at <= t

\* the page token had expired and no exchange could succeed
C14Case ==
    /\ TokenCall
    /\ PageTokenExpired(resp.before.user, now)
    /\ \/ resp.before.user.facebook_user_access_token = NULL
       \/ UserTokenExpired(resp.before.user, now)
       \/ ~resp.exchange

C14Fails ==
    C14Case => ~resp.ok /\ resp.error \in TokenExpired /\ db.user = resp.before.user

\* from UserTokenExpired every step but a link leaves the Credential as it
\* is and in UserTokenExpired, a token call fails and a publish creates
\* no remote post
C14Terminal ==
    (UserTokenExpired(db.user, now) /\ resp'.op # "link")
    => /\ db'.user = db.user
       /\ UserTokenExpired(db'.user, now')
       /\ resp'.op = "get_valid_token" => ~resp'.ok
       /\ resp'.op \in {"create", "update"}
          => \A i \in DOMAIN resp'.calls : resp'.calls[i].fn # "publish"

\* C14: with the page token expired and the user token missing, expired or
\* refused by the platform, get_valid_token fails with TokenExpired and
\* leaves the Credential unchanged; UserTokenExpired is terminal until the
\* account is linked again: no get_valid_token, publish or unpublish yields a
\* token or changes the Credential, only the linking flow does.
C14_ExpiredIsTerminal == []C14Fails /\ [][C14Terminal]_vars

\* an account in UserTokenExpired is linked again and its token is valid
C14_Witness ==
    /\ resp.op = "link"
    /\ resp.status_code = 200
    /\ UserTokenExpired(resp.before.user, now)
    /\ PageTokenValid(db.user, now)
    /\ Len(db.posts) > 0

\* ---------------------------------------------------------------- C15
\* a page id and a token are at hand, from the caller or the environment
CredentialAvailable ==
    /\ resp.page_id # NULL \/ FB_ENV.FB_PAGE_ID # NULL
    /\ resp.access_token # NULL \/ FB_ENV.FB_ACCESS_TOKEN # NULL

\* the platform deleted the post
RemoteSuccess ==
    CredentialAvailable /\ resp.delete /\ resp.fb_post_id \in resp.fb_before.live

FailedUnpublish ==
    /\ resp.op \in {"update", "delete"}
    /\ \E i \in DOMAIN resp.calls : resp.calls[i].fn = "unpublish" /\ ~resp.calls[i].ok

\* C15: unpublish never raises: it returns true only when the remote delete
\* reports success, false when the remote post is already gone, on every
\* other remote or network failure and when no credential is available; an
\* update or delete whose unpublish failed is still committed.
C15_UnpublishNeverRaises ==
    /\ resp.op = "unpublish"
       => /\ ~resp.raised
          /\ resp.success <=> RemoteSuccess
          /\ db = resp.before
          /\ fb.live = IF resp.success THEN resp.fb_before.live \ {resp.fb_post_id}
                       ELSE resp.fb_before.live
    /\ FailedUnpublish
       => /\ resp.status_code \in {200, 204}
          /\ resp.op = "update" => After(resp.id).status = resp.payload.status
          /\ resp.op = "delete" => After(resp.id).deleted_at # NULL

\* the remote post was already gone: false, nothing raised
C15_Witness ==
    /\ resp.op = "unpublish"
    /\ CredentialAvailable
    /\ resp.delete
    /\ resp.fb_post_id \notin resp.fb_before.live
    /\ resp.fb_post_id < resp.fb_before.next
    /\ ~resp.success

\* ---------------------------------------------------------------- C16
\* no page token can be had from the row: not linked, or expired with the
\* user token missing or expired
CredentialUnusable(user, t) ==
    \/ ~HasPage(user)
    \/ /\ PageTokenExpired(user, t)
       /\ \/ user.facebook_user_access_token = NULL
          \/ UserTokenExpired(user, t)

\* a create or update failed at its publish before any upload was tried
C16Case ==
    /\ resp.op \in {"create", "update"}
    /\ resp.code \in {"facebook_token_expired", "facebook_post_failed"}
    /\ CredentialUnusable(resp.before.user, now)
    /\ \A i \in DOMAIN resp.calls : resp.calls[i].fn # "publish"

\* C16: a required publish that fails because the acting user's credential
\* is not linked, or is expired and cannot be refreshed, is answered with
\* the error facebook_token_expired (400), not with facebook_post_failed.
C16_ExpiredCredentialError ==
    C16Case => resp.status_code = 400 /\ resp.code = "facebook_token_expired"

\* ---------------------------------------------------------------- C17
\* an update of the form went through
C17Case == resp.op = "update" /\ resp.status_code = 200

\* the stored text is the supplied one, or the one before when none is
Applied(field, before, after) ==
    IF field.present THEN after = field.v ELSE after = before

AppliedOptional(field, before, after) ==
    IF field.present THEN after = Some(field.v) ELSE after = before

StatusEdges ==
    {<<"draft", "published">>, <<"published", "draft">>,
     <<"published", "archived">>, <<"archived", "published">>}

\* C18: every status change that an update commits follows an edge of
\* draft <-> published <-> archived; no committed update moves an item
\* directly between draft and archived.
C18_StatusFollowsEdges ==
    (/\ resp.op = "update"
     /\ resp.status_code = 200
     /\ Before(resp.id).status # After(resp.id).status)
    => <<Before(resp.id).status, After(resp.id).status>> \in StatusEdges

\* ---------------------------------------------------------------- C19
Slugified == resp.op \in {"slugify", "slugify_again"}

\* C19: for every input, the output of slugify contains only lowercase
\* ascii letters, digits and hyphens, has no two adjacent hyphens and no
\* leading or trailing hyphen, and slugify(slugify(x)) = slugify(x).
C19_SlugShapeAndIdempotent ==
    /\ Slugified
       => /\ \A i \in DOMAIN resp.slug : resp.slug[i] \in SlugChars
          /\ \A i \in 1..(Len(resp.slug) - 1) :
                ~(resp.slug[i] = "-" /\ resp.slug[i + 1] = "-")
          /\ resp.slug # <<>> => resp.slug[1] # "-" /\ resp.slug[Len(resp.slug)] # "-"
    /\ resp.op = "slugify_again" => resp.again = resp.slug

\* "H -á" has a capital, a separator next to a hyphen and an accent: h-a
C19_Witness ==
    /\ resp.op = "slugify_again"
    /\ resp.value = <<"H", " ", "-", "a_acute">>
    /\ resp.slug = <<"h", "-", "a">>
    /\ resp.again = resp.slug

\* ---------------------------------------------------------------- C20
ReadOps == {"admin_list", "public_list", "public_detail", "push"}

IsVideo(public_id) == \E a \in Asset : a.public_id = public_id /\ a.mime_type = "video"

IsImage(public_id) == \E a \in Asset : a.public_id = public_id /\ a.mime_type = "image"

\* the attachments of the item the request published, in position order
Attachments ==
    IF resp.payload.content_asset_public_ids.present
    THEN resp.payload.content_asset_public_ids.v
    ELSE IF resp.op = "update"
         THEN PublicIds(_to_news_out(resp.before, resp.id))
         ELSE <<>>

FirstTen(s) == SubSeq(s, 1, IF Len(s) < 10 THEN Len(s) ELSE 10)

Published == resp.op \in {"create", "update"} /\ Publishes # <<>>

\* C21: a publish takes the attachments in position order: with a video
\* attached it uploads exactly the first video in position order and no
\* image; else with an image attached it uploads at most 10 images, in
\* position order, for one remote post; else it creates one text-only post.
\* One remote post is created per publish call that goes through.
C21_MediaRouteInPositionOrder ==
    Published
    => LET videos == SelectSeq(Attachments, IsVideo)
           images == SelectSeq(Attachments, IsImage)
       IN  /\ \A i \in DOMAIN Publishes :
                 LET c == Publishes[i]
                 IN  IF videos # <<>>
                     THEN c.route = "video" /\ c.uploads = <<Head(videos)>>
                     ELSE IF images # <<>>
                          THEN c.route = "images" /\ c.uploads = FirstTen(images)
                          ELSE c.route = "text" /\ c.uploads = <<>>
           /\ fb.next - resp.fb_before.next
                = Len(SelectSeq(Publishes, LAMBDA c : c.ok))

\* ---------------------------------------------------------------- C22
\* an upload request of the publish failed, for the video or for a photo
UploadFailed == Published /\ \E i \in DOMAIN Publishes : Publishes[i].failed # <<>>

\* C22: when one upload call of a publish fails, for the video or for any
\* one image, the failure is raised: the request fails with
\* facebook_post_failed, no remote post is created and no remote id is
\* returned or recorded.
C22_UploadFailureRaised ==
    UploadFailed
    => /\ resp.code = "facebook_post_failed"
       /\ \A i \in DOMAIN Publishes : ~Publishes[i].ok
       /\ fb = resp.fb_before
       /\ LogRows(db, resp.id) = LogRows(resp.before, resp.id)

\* ---------------------------------------------------------------- C23
\* C23: in every committed state, after requests that went through and
\* requests that failed, the publish timestamp of an item is set if and
\* only if its status is published.
C23_TimestampIffPublished ==
    \A i \in DOMAIN db.posts :
        db.posts[i].published_at # NULL <=> db.posts[i].status = "published"

\* an update to published failed at its publish after the token refresh
\* had committed the session: status and timestamp were committed together
C23_Witness ==
    /\ UpdateOfLive
    /\ resp.code = "facebook_post_failed"
    /\ Before(resp.id).status = "archived"
    /\ Before(resp.id).published_at = NULL
    /\ After(resp.id).status = "published"
    /\ After(resp.id).published_at = now

\* ---------------------------------------------------------------- C24
RevisionsOf(d, id) == SelectSeq(d.post_revisions, LAMBDA r : r.post_id = id)

Snapshot(d, id) ==
    [post_id |-> id, title |-> d.posts[id].title, excerpt |-> d.posts[id].excerpt,
     content_html |-> d.posts[id].content_html]

Succeeded == resp.op \in {"create", "update"} /\ resp.status_code \in {200, 201}

\* C24: Revisions are append-only and follow the successful mutations: a
\* create or update that goes through appends exactly one Revision equal to
\* the item's title, excerpt and body after it; a failed request and a
\* delete append none; no request changes or removes a Revision; so the
\* latest Revision of every item equals its committed title, excerpt and body.
C24_RevisionsTrackMutations ==
    /\ resp.op # "idle"
       => /\ Len(db.post_revisions) >= Len(resp.before.post_revisions)
          /\ SubSeq(db.post_revisions, 1, Len(resp.before.post_revisions))
               = resp.before.post_revisions
          /\ IF Succeeded
             THEN db.post_revisions
                    = Append(resp.before.post_revisions, Snapshot(db, resp.id))
             ELSE db.post_revisions = resp.before.post_revisions
    /\ \A id \in DOMAIN db.posts :
          /\ RevisionsOf(db, id) # <<>>
          /\ RevisionsOf(db, id)[Len(RevisionsOf(db, id))] = Snapshot(db, id)

\* ---------------------------------------------------------------- C25
OkPublishes == SelectSeq(Publishes, LAMBDA c : c.ok)

\* a create or update went through and a publish call of it succeeded
C25Case == Succeeded /\ OkPublishes # <<>>

\* C25: every item has at most one PublishRecord: the first successful
\* publish creates it, a later successful publish sets the remote id of
\* that record to the id the publish call returned and adds no second
\* record, and an unpublish attempt neither deletes nor duplicates the
\* record nor changes its remote id.
C25_OnePublishRecord ==
    /\ \A id \in DOMAIN db.posts : Cardinality(LogRows(db, id)) <= 1
    /\ C25Case
       => LogRows(db, resp.id) =
            {[post_id |-> resp.id, fb_post_id |-> OkPublishes[Len(OkPublishes)].id,
              status |-> SUCCEEDED]}
    /\ resp.op # "idle"
       => \A id \in DOMAIN resp.before.posts :
             /\ LogRows(resp.before, id) # {} => LogRows(db, id) # {}
             /\ (id # resp.id \/ Publishes = <<>>)
                => {l.fb_post_id : l \in LogRows(db, id)}
                     = {l.fb_post_id : l \in LogRows(resp.before, id)}

\* an item that had a record is published again: the record holds the new id
C25_Witness ==
    /\ C25Case
    /\ resp.op = "update"
    /\ RecordedId # NULL
    /\ _get_facebook_post_id(db, resp.id) = OkPublishes[Len(OkPublishes)].id
    /\ _get_facebook_post_id(db, resp.id) # RecordedId

\* ---------------------------------------------------------------- C26
\* the requests whose exchange call was answered
Exchanges == {i \in Slots : reqs[i].exchanged}

\* what a refresh writes: page id, token, expiry and name of one answer
CredentialOf(page_info) ==
    <<page_info.page_id, page_info.access_token, page_info.expires_at, page_info.name>>

Persisted ==
    <<db.user.facebook_page_id, db.user.facebook_access_token,
      db.user.facebook_token_expires_at, db.user.facebook_page_name>>

AllDone == \A i \in Slots : reqs[i].pc = "done"

\* C26: when requests of one user call get_valid_token concurrently with
\* the page token expired and the user token valid, under every
\* interleaving each call returns a pair obtained from an exchange, and
\* the Credential persisted at the end is what one of the refreshes wrote
\* (page id, token, expiry and name from the same answer), never a mixture
\* and never the expired token.
C26_RefreshRaceIsBenign ==
    Exchanges # {}
    => /\ \A i \in Slots :
             (reqs[i].pc = "done" /\ reqs[i].ok)
             => \E j \in Exchanges :
                   /\ reqs[i].page_id = reqs[j].page_info.page_id
                   /\ reqs[i].access_token = reqs[j].page_info.access_token
       /\ AllDone
          => \E j \in Exchanges : Persisted = CredentialOf(reqs[j].page_info)

\* ---------------------------------------------------------------- C27
\* the remote posts created for an item that are still on the platform
LiveFor(post_id) == {x \in fb.live : <<x, post_id>> \in fb.made}

\* C27: in every state reachable by create, update and delete, with
\* unpublish calls allowed to return false, at most one remote post
\* created for an item is still live, and a live one has the remote id
\* held in the PublishRecord of the item: no remote post is orphaned.
C27_NoOrphanRemotePost ==
    \A post_id \in DOMAIN db.posts :
        /\ Cardinality(LiveFor(post_id)) <= 1
        /\ \A x \in LiveFor(post_id) : _get_facebook_post_id(db, post_id) = x

\* ---------------------------------------------------------------- C28
\* the remote posts of the item that were live when the request came in
LiveBefore(post_id) == {x \in resp.fb_before.live : <<x, post_id>> \in fb.made}

\* an update that keeps a published item published, carries no content
\* field and sets publish_to_facebook = true went through
C28Case ==
    /\ resp.op = "update"
    /\ resp.status_code = 200
    /\ Before(resp.id).status = "published"
    /\ resp.payload.status = "published"
    /\ resp.payload.publish_to_facebook = "True"
    /\ ~has_content_changes(resp.payload)

\* C28: an update that keeps the item published, supplies no content
\* change and sets publish_to_facebook = true publishes a remote post
\* exactly when the item has no live remote post; so after sync was turned
\* off (the remote post deleted) and is turned on again, a new remote post
\* is created and recorded.
C28_SyncOnPublishesWhenNotLive ==
    C28Case
    => /\ (OkPublishes # <<>>) <=> (LiveBefore(resp.id) = {})
       /\ LiveBefore(resp.id) = {}
          => /\ LiveFor(resp.id) # {}
             /\ _get_facebook_post_id(db, resp.id) \in LiveFor(resp.id)

\* ---------------------------------------------------------------- C29
\* C29: one update makes at most one remote publish call and at most one
\* remote unpublish call, whatever the prior status, the supplied status,
\* the publish_to_facebook flag (true, false or omitted), the content
\* fields supplied and the PublishRecord of the item.
C29_OneCallOfEachKindPerUpdate ==
    resp.op = "update" => Len(Publishes) <= 1 /\ Len(Unpublishes) <= 1

\* ---------------------------------------------------------------- C30
RuleOf(request) == _match_rule(RATE_LIMIT_RULES, request.path)

\* the client key of a request: rule path and client IP
KeyOf(request) == <<RuleOf(request).path, _client_ip(request)>>

Limited == {i \in DOMAIN served : RuleOf(served[i].request) # NoRule}

\* the admitted requests of a key, by their position in the order served
Admitted(key) ==
    {i \in Limited : served[i].status_code = 0 /\ KeyOf(served[i].request) = key}

RateKeys == {KeyOf(served[i].request) : i \in Limited}

RuleOfKey(key) ==
    RATE_LIMIT_RULES[CHOOSE r \in DOMAIN RATE_LIMIT_RULES : RATE_LIMIT_RULES[r].path = key[1]]

\* the timestamps of the admitted requests of a key, oldest first
RECURSIVE AdmittedTimes(_, _)
AdmittedTimes(key, upto) ==
    IF upto = 0 THEN <<>>
    ELSE IF upto \in Admitted(key)
         THEN Append(AdmittedTimes(key, upto - 1), served[upto].at)
         ELSE AdmittedTimes(key, upto - 1)

IsSuffix(s, t) == Len(s) <= Len(t) /\ SubSeq(t, Len(t) - Len(s) + 1, Len(t)) = s

\* C30: for every rule and client key (rule path, client IP), however the
\* concurrent requests interleave, the admitted requests whose timestamps
\* lie in one window of window_seconds never exceed the limit of the rule;
\* a request answered 429 is not recorded in the bucket; and whether a
\* request is admitted depends on the requests of its own key only.
C30_WindowNeverExceedsLimit ==
    /\ \A key \in RateKeys : \A start \in 1..MaxClock :
          Cardinality({i \in Admitted(key) :
                         /\ served[i].at >= start
                         /\ served[i].at <= start + RuleOfKey(key).window_seconds})
            <= RuleOfKey(key).limit
    /\ DOMAIN rate_limiter._buckets = RateKeys
    /\ \A key \in RateKeys :
          IsSuffix(rate_limiter._buckets[key], AdmittedTimes(key, Len(served)))
    /\ \A i \in Limited :
          LET key == KeyOf(served[i].request)
              recent == {j \in Admitted(key) :
                           /\ j < i
                           /\ served[j].at >= served[i].at - RuleOfKey(key).window_seconds}
          IN  served[i].status_code = 429 <=> Cardinality(recent) >= RuleOfKey(key).limit

\* a key reached its limit and was refused, its window passed and it was
\* admitted again, while requests of another key and of a path without a
\* rule were served
C30_Witness ==
    \E i, j, k \in Limited :
        /\ i < j /\ j < k
        /\ KeyOf(served[i].request) = KeyOf(served[j].request)
        /\ KeyOf(served[j].request) = KeyOf(served[k].request)
        /\ served[i].status_code = 0
        /\ served[j].status_code = 429
        /\ served[k].status_code = 0
        /\ Cardinality(RateKeys) >= 2
        /\ Cardinality(reqs) >= 2

====
